---- MODULE Spec2Model ----
(***************************************************************************)
(* pixelbox: the crawl / hash / store pipeline of engine.rs, crawler.rs    *)
(* and indexed_image.rs as a state machine.                                *)
(*                                                                         *)
(* Threads of one indexing run: one discovery thread, the worker threads,  *)
(* one drain thread.  The channels are crossbeam MPMC channels: a message  *)
(* is delivered to one receiver, recv() fails once the channel is empty    *)
(* and every Sender is dropped.  The connection is behind a FairMutex that *)
(* the drain thread takes once for the existence check and once for the    *)
(* insert: each of the two is one atomic step.                             *)
(***************************************************************************)
EXTENDS Integers, Sequences, FiniteSets, TLC

\* ------------------------------------------------------------------ bounds
\* Reindex clicks that the model follows.
MaxRuns == 2
\* Worker threads per run (PARALLEL_FILE_PROCESSORS is 8 in engine.rs; the
\* model runs the same loop in fewer threads).
NumWorkers == 2
\* Statements of the storage engine that may fail during one behaviour.
MaxFaults == 1
\* Entries the glob expansion of the discovery thread yields (crawl model).
MaxEntries == 3
\* Entries the glob expansion yields in the pipeline model.
MaxPipelineEntries == 2
\* The capacity a bounded channel would have (MAX_PENDING_FILEPATHS, scaled).
QueueCapacity == 1
\* Entries of the layout in the runs whose progress is read.
MaxProgressEntries == 1
\* Characters of a text given to tokenize_query.
MaxQueryLen == 5
\* Globs a user may track
MaxGlobs == 4

\* Bytes of the short vectors given to the distance functions.
MaxHashLen == 2

\* Files of the run whose completions get_last_indexed collects.
MaxCompletions == 12

Runs == 1..MaxRuns
Workers == 1..NumWorkers

\* ------------------------------------------------------- the file system
\* crawler.rs:11
SUPPORTED_IMAGE_EXTENSIONS ==
    <<"png", "bmp", "jpg", "jpeg", "jfif", "gif", "tiff", "pnm", "webp", "ico", "tga", "exr">>

\* Path::extension() of a name without one.
NoExtension == "<none>"

\* What a file holds: "image" decodes and hashes, "corrupt" fails to decode,
\* "unhashable" decodes and makes the embedding model fail, "text" is not
\* an image, "archive" is a zip file, "empty" is no byte at all.
\* An entry is what glob() yields: a path, whether it is a regular file, its
\* extension, its bytes, its EXIF tags, and for an archive its inner files
\* (name, the path format!("{}/{}", archive, name), the end of the name).
ImgUpper ==
    [path |-> "/w/a.PNG", filename |-> "a.PNG", extension |-> "PNG", is_file |-> TRUE,
     content |-> "image", tags |-> {"Make"}, inner |-> <<>>]
ImgPlain ==
    [path |-> "/w/b.jpg", filename |-> "b.jpg", extension |-> "jpg", is_file |-> TRUE,
     content |-> "image", tags |-> {}, inner |-> <<>>]
ImgCorrupt ==
    [path |-> "/w/c.gif", filename |-> "c.gif", extension |-> "gif", is_file |-> TRUE,
     content |-> "corrupt", tags |-> {}, inner |-> <<>>]
ImgUnhashable ==
    [path |-> "/w/h.bmp", filename |-> "h.bmp", extension |-> "bmp", is_file |-> TRUE,
     content |-> "unhashable", tags |-> {}, inner |-> <<>>]
ImgOtherExt ==
    [path |-> "/w/p.dat", filename |-> "p.dat", extension |-> "dat", is_file |-> TRUE,
     content |-> "image", tags |-> {}, inner |-> <<>>]
ImgNoExt ==
    [path |-> "/w/.hid", filename |-> ".hid", extension |-> NoExtension, is_file |-> TRUE,
     content |-> "image", tags |-> {}, inner |-> <<>>]
DirEntry ==
    [path |-> "/w/d.png", filename |-> "d.png", extension |-> "png", is_file |-> FALSE,
     content |-> "empty", tags |-> {}, inner |-> <<>>]
ZipEntry ==
    [path |-> "/w/z.ZIP", filename |-> "z.ZIP", extension |-> "ZIP", is_file |-> TRUE,
     content |-> "archive", tags |-> {},
     inner |-> << [name |-> "in.png", path |-> "/w/z.ZIP/in.png", suffix |-> "png",
                   is_file |-> TRUE, content |-> "image"],
                  [name |-> "in.txt", path |-> "/w/z.ZIP/in.txt", suffix |-> "txt",
                   is_file |-> TRUE, content |-> "text"] >>]

CrawlEntries ==
    {ImgUpper, ImgPlain, ImgCorrupt, ImgUnhashable, ImgOtherExt, ImgNoExt, DirEntry, ZipEntry}
PipelineEntries == {ImgUpper, ImgPlain}

SeqsUpTo(S, n) == UNION {[1..k -> S] : k \in 1..n}

\* ------------------------------------------------------------------ state
VARIABLES
    layout,           \* what glob() yields over the watched globs, in order
    nruns,            \* runs started so far; the Engine's receivers are run nruns'
    disc,             \* per run: the discovery thread
    file_q,           \* per run: the channel file_tx -> file_rx (layout indexes)
    worker,           \* per run and worker: the image processing thread
    image_q,          \* per run: the channel image_tx -> image_rx (IndexedImages)
    drain,            \* per run: the thread spawned by start_reindexing
    images,           \* table images: row i has id i
    tags,             \* table tags
    phashes,          \* table phashes (image ids)
    semantic_hashes,  \* table semantic_hashes (image ids)
    success_q,        \* per run: the channel success_tx -> files_completed
    failure_q,        \* per run: the channel failure_tx -> files_failed
    faults,           \* storage statements that failed so far
    hist,             \* per run: what the run's threads have done (observation only)
    cached_index_size,     \* Engine.cached_index_size
    user_input,            \* the text of the latest call of query / tokenize_query
    parsed_query,          \* what tokenize_query returned for it
    query_result,          \* what the latest call of query returned
    cached_search_results, \* Engine.cached_search_results
    cached_image_search,   \* Engine.cached_image_search
    loads,                 \* calls of IndexedImage::from_file_path in the latest query (observation only)
    where_clause,          \* the clauses the latest query built (observation only)
    ranking,               \* the reference and the threshold of the call that wrote
                           \* cached_search_results last (observation only)
    hash_a,                \* distance functions: the first byte vector
    hash_b,                \* distance functions: the second byte vector
    overflow_checks,       \* distance functions: the build panics on integer overflow
    distances,             \* distance functions: what each of the three returned
    watched_directories,       \* table watched_directories (globs)
    watched_directories_cache, \* Engine.watched_directories_cache
    folders_hist,              \* tracked folders: what the calls did (observation only)
    max_distance_from_query,   \* Engine.max_distance_from_query
    semantic_hash_blob,        \* table semantic_hashes: the hash of each row, where the
                               \* similarity queries are specified
    last_indexed,              \* Engine.last_indexed
    last_indexed_hist,         \* every message get_last_indexed received, in order, and
                               \* the calls that received one (observation only)
    conn_lock,                 \* Engine.connection: the thread that holds the FairMutex
                               \* and the threads parked on it, first come first
    reader                     \* the thread of the user interface in a call of query,
                               \* and the lock operations of drain threads it has
                               \* waited through (observation only)

vars == <<layout, nruns, disc, file_q, worker, image_q, drain, images, tags, phashes,
          semantic_hashes, success_q, failure_q, faults, hist, cached_index_size,
          user_input, parsed_query, query_result, cached_search_results,
          cached_image_search, loads, where_clause, ranking, hash_a, hash_b,
          overflow_checks, distances, watched_directories, watched_directories_cache,
          folders_hist, max_distance_from_query, semantic_hash_blob, last_indexed,
          last_indexed_hist, conn_lock, reader>>

\* The fields of the Engine that query reads and writes.
session == <<user_input, parsed_query, query_result, cached_search_results,
             cached_image_search, loads, where_clause, ranking>>

\* The tracked folders.
folders == <<watched_directories, watched_directories_cache, folders_hist>>

\* The arguments and the results of the distance functions.
hashing == <<hash_a, hash_b, overflow_checks, distances>>

\* What a similarity query reads besides the images.
similarity == <<max_distance_from_query, semantic_hash_blob>>

\* The list of the files indexed last.
recent == <<last_indexed, last_indexed_hist>>

\* The mutex of the connection and the thread that queries.
locking == <<conn_lock, reader>>

\* What the pipeline and the query session leave alone, the mutex aside.
unlocked == <<hashing, folders, similarity, recent>>

\* What the pipeline and the query session leave alone.
apart == <<unlocked, locking>>

\* Option::None.
None == [some |-> FALSE]

Some(v) == [some |-> TRUE, v |-> v]

\* No call made yet.
NotCalled == [called |-> FALSE]

\* Result::Ok and Result::Err of a call that was made.
Ok(v) == [called |-> TRUE, ok |-> TRUE, v |-> v]

Err(e) == [called |-> TRUE, ok |-> FALSE, error |-> e]

\* engine.rs:130-145: the fields of Engine::open.
InitSession ==
    /\ cached_index_size = None
    /\ user_input = <<>>
    /\ parsed_query = NotCalled
    /\ query_result = NotCalled
    /\ cached_search_results = None
    /\ cached_image_search = None
    /\ loads = 0
    /\ where_clause = NotCalled
    /\ ranking = NotCalled

\* No distance function called.
NoDistances == [hamming |-> NotCalled, byte |-> NotCalled, cosine |-> NotCalled]

\* No folder call was made yet; the globs of the table are tracked.
NoFolderCalls(table) ==
    [tracked |-> table, added |-> FALSE, removed |-> FALSE, returned |-> NotCalled,
     panicked |-> FALSE]

\* engine.rs:139: Engine::open starts without a list of the globs; the table
\* holds what earlier sessions left in the file.
InitFolders(tables) ==
    /\ watched_directories \in tables
    /\ watched_directories_cache = None
    /\ folders_hist = NoFolderCalls(watched_directories)

InitHashing ==
    /\ hash_a = <<>>
    /\ hash_b = <<>>
    /\ overflow_checks = FALSE
    /\ distances = NoDistances

\* engine.rs:28: 1e6, as sign, 24-bit significand and exponent of 2
\* (16000000 * 2^-4).
DEFAULT_MAX_QUERY_DISTANCE == [s |-> 0, m |-> 16000000, e |-> -4]

\* engine.rs:142: the threshold of Engine::open; blobs are the hashes of
\* the rows of semantic_hashes, by image id.
InitSimilarity(blobs) ==
    /\ max_distance_from_query = DEFAULT_MAX_QUERY_DISTANCE
    /\ semantic_hash_blob \in blobs

\* engine.rs:138: last_indexed: vec![]
InitRecent ==
    /\ last_indexed = <<>>
    /\ last_indexed_hist = [received |-> <<>>, calls |-> 0]

\* No thread of the process.
NoThread == -1

\* The thread of the user interface; the drain thread of run r is thread r.
UiThread == 0

\* engine.rs:133: FairMutex::new(conn); no call of query is under way.
InitLocking ==
    /\ conn_lock = [holder |-> NoThread, waiting |-> <<>>]
    /\ reader = [pc |-> "idle", bypassed |-> 0]

\* Nothing outside the pipeline and the query session has happened.
InitApart ==
    /\ InitHashing /\ InitFolders({{}}) /\ InitSimilarity({<<>>}) /\ InitRecent
    /\ InitLocking

store == <<images, tags, phashes, semantic_hashes>>

NoImage == [filename |-> "", path |-> "", tags |-> {}, phash |-> FALSE, visual_hash |-> FALSE]

NoHist ==
    [paths_sent |-> 0, paths_recv |-> 0, imgs_sent |-> 0, imgs_recv |-> 0, rows |-> 0,
     succ |-> 0, fail |-> 0, insert_failed |-> FALSE, after_complete |-> FALSE,
     after_clean |-> FALSE, stopped |-> FALSE, busy_at_stop |-> {}, finished |-> {}]

\* No run yet.
InitThreads ==
    /\ nruns = 0
    /\ disc = [r \in Runs |-> [pc |-> "none", next |-> 1]]
    /\ file_q = [r \in Runs |-> <<>>]
    /\ worker = [r \in Runs |-> [w \in Workers |-> [pc |-> "none", item |-> 0]]]
    /\ image_q = [r \in Runs |-> <<>>]
    /\ drain = [r \in Runs |-> [pc |-> "none", img |-> NoImage]]
    /\ success_q = [r \in Runs |-> <<>>]
    /\ failure_q = [r \in Runs |-> <<>>]
    /\ faults = 0
    /\ hist = [r \in Runs |-> NoHist]

\* No run yet, empty tables.
InitPipeline(layouts) ==
    /\ layout \in layouts
    /\ InitThreads
    /\ images = <<>>
    /\ tags = {}
    /\ phashes = {}
    /\ semantic_hashes = {}

InitWith(layouts) == InitPipeline(layouts) /\ InitSession /\ InitApart

\* Engine::new: empty tables, no run.
Init == InitWith(SeqsUpTo(PipelineEntries, MaxPipelineEntries))

InitCrawl == InitWith(SeqsUpTo(CrawlEntries, MaxEntries))

\* ------------------------------------------------------------ crawler.rs
ToAsciiLower(s) ==
    CASE s = "PNG" -> "png"
      [] s = "ZIP" -> "zip"
      [] OTHER -> s

eq_ignore_ascii_case(a, b) == ToAsciiLower(a) = ToAsciiLower(b)

\* crawler.rs:61
is_zipfile(ext) == eq_ignore_ascii_case(ext, "zip")

\* is_image_file without the comparison against the supported extensions.
is_image_file_any(ext) == ~is_zipfile(ext)

\* crawler.rs:62-70
is_image_file(ext) ==
    /\ ~is_zipfile(ext)
    /\ \E i \in 1..Len(SUPPORTED_IMAGE_EXTENSIONS) :
           eq_ignore_ascii_case(ext, SUPPORTED_IMAGE_EXTENSIONS[i])

\* crawler.rs:84-91: filename.ends_with(ext), case-sensitive
valid_image(suffix) ==
    \E i \in 1..Len(SUPPORTED_IMAGE_EXTENSIONS) : suffix = SUPPORTED_IMAGE_EXTENSIONS[i]

\* crawler.rs:93-94: data is an empty Vec, read() fills a buffer of length 0.
read_compressed(content) == "empty"

\* indexed_image.rs:48-91: "ok" with the Record, "err" (decode fails, the ?
\* returns it), "panic" (mlhash: model.run(..).unwrap(), convnet.rs:64).
from_memory(bytes, filename, path, exif) ==
    IF bytes \notin {"image", "unhashable"} THEN [result |-> "err", img |-> NoImage]
    ELSE IF bytes = "unhashable" THEN [result |-> "panic", img |-> NoImage]
    ELSE [result |-> "ok",
          img |-> [filename |-> filename, path |-> path, tags |-> exif,
                   phash |-> TRUE, visual_hash |-> TRUE]]

\* indexed_image.rs:36-46
from_file_path(e) == from_memory(e.content, e.filename, e.path, e.tags)

\* crawler.rs:73-102: the Records of the inner files of an archive, in order
\* (from_memory is given the empty buffer and returns Err for each).
RECURSIVE zip_images(_, _)
zip_images(e, k) ==
    IF k > Len(e.inner) THEN <<>>
    ELSE LET f == e.inner[k]
             r == from_memory(read_compressed(f.content), f.name, f.path, {})
         IN  IF f.is_file /\ valid_image(f.suffix) /\ r.result = "ok"
             THEN <<r.img>> \o zip_images(e, k + 1)
             ELSE zip_images(e, k + 1)

\* crawler.rs:56-114, one iteration of the worker loop after recv():
\* the Records sent on image_tx, and whether the thread survives.
process_file(e) ==
    IF e.extension = NoExtension THEN [sent |-> <<>>, alive |-> TRUE]
    ELSE IF is_zipfile(e.extension) THEN [sent |-> zip_images(e, 1), alive |-> TRUE]
    ELSE IF is_image_file(e.extension)
         THEN LET r == from_file_path(e)
              IN  CASE r.result = "ok" -> [sent |-> <<r.img>>, alive |-> TRUE]
                    [] r.result = "err" -> [sent |-> <<>>, alive |-> TRUE]
                    [] OTHER -> [sent |-> <<>>, alive |-> FALSE]
         ELSE [sent |-> <<>>, alive |-> TRUE]

\* crawler.rs:16-119: the channels and threads of one crawl.
SpawnCrawl(r) ==
    /\ disc' = [disc EXCEPT ![r] = [pc |-> "run", next |-> 1]]
    /\ worker' = [worker EXCEPT ![r] = [w \in Workers |-> [pc |-> "recv", item |-> 0]]]

\* crawl_globs_async called on its own: nobody receives from image_rx.
CrawlGlobsAsync ==
    /\ nruns = 0
    /\ nruns' = 1
    /\ SpawnCrawl(1)
    /\ UNCHANGED <<layout, file_q, image_q, drain, store, success_q, failure_q, faults, hist>>
    /\ UNCHANGED <<cached_index_size, session, apart>>

\* crawler.rs:33-45: one entry of the glob iterator; a regular file is sent,
\* whatever its extension.
Discover(r) ==
    /\ disc[r].pc = "run"
    /\ disc[r].next <= Len(layout)
    /\ LET e == layout[disc[r].next] IN
       IF e.is_file
       THEN /\ file_q' = [file_q EXCEPT ![r] = Append(@, disc[r].next)]
            /\ hist' = [hist EXCEPT ![r].paths_sent = @ + 1]
       ELSE UNCHANGED <<file_q, hist>>
    /\ disc' = [disc EXCEPT ![r].next = @ + 1]
    /\ UNCHANGED <<layout, nruns, worker, image_q, drain, store, success_q, failure_q, faults>>
    /\ UNCHANGED <<cached_index_size, session, apart>>

\* crawler.rs:47: the loops are over, drop(tx).
DiscoverEnd(r) ==
    /\ disc[r].pc = "run"
    /\ disc[r].next > Len(layout)
    /\ disc' = [disc EXCEPT ![r].pc = "done"]
    /\ UNCHANGED <<layout, nruns, file_q, worker, image_q, drain, store, success_q,
                   failure_q, faults, hist>>
    /\ UNCHANGED <<cached_index_size, session, apart>>

\* crawler.rs:56: rx.recv() returns a path.
WorkerRecv(r, w) ==
    /\ worker[r][w].pc = "recv"
    /\ file_q[r] # <<>>
    /\ worker' = [worker EXCEPT ![r][w] = [pc |-> "busy", item |-> Head(file_q[r])]]
    /\ file_q' = [file_q EXCEPT ![r] = Tail(@)]
    /\ hist' = [hist EXCEPT ![r].paths_recv = @ + 1]
    /\ UNCHANGED <<layout, nruns, disc, image_q, drain, store, success_q, failure_q, faults>>
    /\ UNCHANGED <<cached_index_size, session, apart>>

\* A worker that never sees the channel disconnected: it waits forever.
WorkerExit_blocked(r, w) ==
    /\ worker[r][w].pc = "recv"
    /\ file_q[r] = <<>>
    /\ FALSE
    /\ UNCHANGED vars

\* crawler.rs:56: rx.recv() fails, the channel is empty and disconnected;
\* the thread ends and drops its image_tx.
WorkerExit(r, w) ==
    /\ worker[r][w].pc = "recv"
    /\ file_q[r] = <<>>
    /\ disc[r].pc = "done"
    /\ worker' = [worker EXCEPT ![r][w].pc = "done"]
    /\ UNCHANGED <<layout, nruns, disc, file_q, image_q, drain, store, success_q,
                   failure_q, faults, hist>>
    /\ UNCHANGED <<cached_index_size, session, apart>>

\* crawler.rs:57-113: the body of the loop for the received path.
WorkerProcess(r, w) ==
    /\ worker[r][w].pc = "busy"
    /\ LET p == process_file(layout[worker[r][w].item]) IN
       /\ image_q' = [image_q EXCEPT ![r] = @ \o p.sent]
       /\ worker' = [worker EXCEPT ![r][w] =
                        [pc |-> IF p.alive THEN "recv" ELSE "dead", item |-> 0]]
       /\ hist' = [hist EXCEPT ![r].imgs_sent = @ + Len(p.sent),
                                ![r].finished = IF hist[r].stopped THEN @ \cup {w} ELSE @]
    /\ UNCHANGED <<layout, nruns, disc, file_q, drain, store, success_q, failure_q, faults>>
    /\ UNCHANGED <<cached_index_size, session, apart>>

CrawlStep ==
    \E r \in Runs :
        \/ Discover(r)
        \/ DiscoverEnd(r)
        \/ \E w \in Workers : WorkerRecv(r, w)
        \/ \E w \in Workers : WorkerExit(r, w)
        \/ \E w \in Workers : WorkerProcess(r, w)

NextCrawl == CrawlGlobsAsync \/ CrawlStep

SpecCrawl == InitCrawl /\ [][NextCrawl]_vars

\* -------------------------------------------------------------- engine.rs
\* engine.rs:148-154: files_crawled and files_processed are None before the
\* first run and the receivers of the latest run after it; with both Some the
\* first arm of the match decides, on the length of the file channel alone.
is_indexing_active ==
    CASE nruns > 0 -> Len(file_q[nruns]) > 0
      [] OTHER -> FALSE

\* The existence check answering "absent" whatever is stored.
exists_never(p) == FALSE

\* engine.rs:225-229: SELECT 1 FROM images WHERE path = ?
exists_by_path(p) == \E i \in 1..Len(images) : images[i].path = p

\* The statements of insert_image that can fail, for a Record: the INSERT
\* into images, the INSERT of one tag (after the tags in done), the INSERT
\* into phashes, the INSERT into semantic_hashes.
InsertFaults(img) ==
    {[at |-> "images", done |-> {}]}
        \cup {[at |-> "tags", done |-> T] : T \in (SUBSET img.tags) \ {img.tags}}
        \cup (IF img.phash THEN {[at |-> "phashes", done |-> img.tags]} ELSE {})
        \cup (IF img.visual_hash THEN {[at |-> "semantic_hashes", done |-> img.tags]} ELSE {})

NoFault == [at |-> "none", done |-> {}]

\* INSERT OR REPLACE on a unique path: the row that held the path is deleted
\* with its tag and hash rows before the new row is added.
insert_image_or_replace(img, fault) ==
    LET id == Len(images) + 1
        row == [id |-> id, filename |-> img.filename, path |-> img.path]
        old == {i \in 1..Len(images) : images[i].path = img.path}
        kept == [i \in 1..Len(images) |->
                    IF i \in old THEN [id |-> i, filename |-> "", path |-> ""]
                    ELSE images[i]]
    IN  [result |-> IF fault.at = "none" THEN "ok" ELSE "err",
         images |-> Append(kept, row),
         tags |-> {t \in tags : t.image_id \notin old}
                      \cup {[image_id |-> id, name |-> t] : t \in img.tags},
         phashes |-> (phashes \ old) \cup (IF img.phash THEN {id} ELSE {}),
         semantic_hashes |->
             (semantic_hashes \ old) \cup (IF img.visual_hash THEN {id} ELSE {})]

\* engine.rs:252-283: the tables after the call and its result: "ok", "err"
\* (a ? returned the error) or "panic" (the expect of the tag INSERT).
\* No transaction is open: every executed statement stays.
insert_image(img, fault) ==
    LET id == Len(images) + 1
        row == [id |-> id, filename |-> img.filename, path |-> img.path]
        tagrows(T) == {[image_id |-> id, name |-> t] : t \in T}
    IN  CASE fault.at = "images" ->
                [result |-> "err", images |-> images, tags |-> tags,
                 phashes |-> phashes, semantic_hashes |-> semantic_hashes]
          [] fault.at = "tags" ->
                [result |-> "panic", images |-> Append(images, row),
                 tags |-> tags \cup tagrows(fault.done),
                 phashes |-> phashes, semantic_hashes |-> semantic_hashes]
          [] fault.at = "phashes" ->
                [result |-> "err", images |-> Append(images, row),
                 tags |-> tags \cup tagrows(img.tags),
                 phashes |-> phashes, semantic_hashes |-> semantic_hashes]
          [] fault.at = "semantic_hashes" ->
                [result |-> "err", images |-> Append(images, row),
                 tags |-> tags \cup tagrows(img.tags),
                 phashes |-> IF img.phash THEN phashes \cup {id} ELSE phashes,
                 semantic_hashes |-> semantic_hashes]
          [] OTHER ->
                [result |-> "ok", images |-> Append(images, row),
                 tags |-> tags \cup tagrows(img.tags),
                 phashes |-> IF img.phash THEN phashes \cup {id} ELSE phashes,
                 semantic_hashes |->
                     IF img.visual_hash THEN semantic_hashes \cup {id} ELSE semantic_hashes]

\* Every thread of the run has left its loop by a failed recv(), nothing is queued.
RunComplete(r) ==
    /\ disc[r].pc = "done"
    /\ \A w \in Workers : worker[r][w].pc = "done"
    /\ drain[r].pc = "done"
    /\ file_q[r] = <<>>
    /\ image_q[r] = <<>>

\* main.rs:82-84, ui/search_panel.rs:81-85: the Reindex button, enabled while
\* is_indexing_active() is false; engine.rs:196-248: start_reindexing.
\* The receivers of the run before are dropped with the fields they were in.
Reindex ==
    /\ nruns < MaxRuns
    /\ ~is_indexing_active
    /\ nruns' = nruns + 1
    /\ SpawnCrawl(nruns + 1)
    /\ drain' = [drain EXCEPT ![nruns + 1] = [pc |-> "recv", img |-> NoImage]]
    /\ success_q' = [r \in Runs |-> <<>>]
    /\ failure_q' = [r \in Runs |-> <<>>]
    /\ hist' = [hist EXCEPT
                   ![nruns + 1].after_complete = \E q \in 1..nruns : RunComplete(q),
                   ![nruns + 1].after_clean =
                       \E q \in 1..nruns : RunComplete(q) /\ ~hist[q].insert_failed]
    /\ UNCHANGED <<layout, file_q, image_q, store, faults>>
    /\ UNCHANGED <<cached_index_size, session, apart>>

\* A send on a channel whose receiver is dropped fails and queues nothing.
Send(q, r, msg) == IF r = nruns THEN [q EXCEPT ![r] = Append(@, msg)] ELSE q

\* engine.rs:223: img_rx.recv() returns a Record.
DrainRecv(r) ==
    /\ drain[r].pc = "recv"
    /\ image_q[r] # <<>>
    /\ drain' = [drain EXCEPT ![r] = [pc |-> "check", img |-> Head(image_q[r])]]
    /\ image_q' = [image_q EXCEPT ![r] = Tail(@)]
    /\ hist' = [hist EXCEPT ![r].imgs_recv = @ + 1]
    /\ UNCHANGED <<layout, nruns, disc, file_q, worker, store, success_q, failure_q, faults>>
    /\ UNCHANGED <<cached_index_size, session, apart>>

\* engine.rs:223: img_rx.recv() fails: every worker has dropped its image_tx.
DrainExit(r) ==
    /\ drain[r].pc = "recv"
    /\ image_q[r] = <<>>
    /\ \A w \in Workers : worker[r][w].pc \in {"done", "dead"}
    /\ drain' = [drain EXCEPT ![r].pc = "done"]
    /\ UNCHANGED <<layout, nruns, disc, file_q, worker, image_q, store, success_q,
                   failure_q, faults, hist>>
    /\ UNCHANGED <<cached_index_size, session, apart>>

\* engine.rs:225-231: the existence check under the lock; prepare() and
\* exists() are unwrapped, a failing SELECT panics the thread.
DrainCheckUnderLock(r) ==
    /\ drain[r].pc = "check"
    /\ \/ /\ drain' = [drain EXCEPT ![r] =
                         IF exists_by_path(drain[r].img.path)
                         THEN [pc |-> "recv", img |-> NoImage]
                         ELSE [pc |-> "insert", img |-> @.img]]
          /\ UNCHANGED faults
       \/ /\ faults < MaxFaults
          /\ faults' = faults + 1
          /\ drain' = [drain EXCEPT ![r] = [pc |-> "dead", img |-> NoImage]]
    /\ UNCHANGED <<layout, nruns, disc, file_q, worker, image_q, store, success_q,
                   failure_q, hist>>
    /\ UNCHANGED <<cached_index_size, session, unlocked>>

\* The existence check, the mutex taken and released within the step.
DrainCheck(r) == DrainCheckUnderLock(r) /\ UNCHANGED locking

\* engine.rs:232-243: insert_image under the lock, then the message.
DrainInsertUnderLock(r) ==
    /\ drain[r].pc = "insert"
    /\ \E fault \in {NoFault} \cup (IF faults < MaxFaults THEN InsertFaults(drain[r].img) ELSE {}) :
         LET res == insert_image(drain[r].img, fault)
             fname == drain[r].img.filename
             added == (Len(res.images) - Len(images))
                      + (Cardinality(res.tags) - Cardinality(tags))
                      + (Cardinality(res.phashes) - Cardinality(phashes))
                      + (Cardinality(res.semantic_hashes) - Cardinality(semantic_hashes))
         IN  /\ images' = res.images
             /\ tags' = res.tags
             /\ phashes' = res.phashes
             /\ semantic_hashes' = res.semantic_hashes
             /\ faults' = IF fault = NoFault THEN faults ELSE faults + 1
             /\ drain' = [drain EXCEPT ![r] =
                            [pc |-> IF res.result = "panic" THEN "dead" ELSE "recv",
                             img |-> NoImage]]
             /\ success_q' = IF res.result = "ok" THEN Send(success_q, r, fname)
                             ELSE success_q
             /\ failure_q' = IF res.result = "err"
                             THEN Send(failure_q, r, [filename |-> fname, error |-> fault.at])
                             ELSE failure_q
             /\ hist' = [hist EXCEPT
                            ![r].rows = @ + added,
                            ![r].succ = @ + (IF res.result = "ok" THEN 1 ELSE 0),
                            ![r].fail = @ + (IF res.result = "err" THEN 1 ELSE 0),
                            ![r].insert_failed = @ \/ res.result # "ok"]
    /\ UNCHANGED <<layout, nruns, disc, file_q, worker, image_q>>
    /\ UNCHANGED <<cached_index_size, session, unlocked>>

\* The insert and its message, the mutex taken and released within the step.
DrainInsert(r) == DrainInsertUnderLock(r) /\ UNCHANGED locking

DrainStep ==
    \E r \in Runs :
        \/ DrainRecv(r)
        \/ DrainExit(r)
        \/ DrainCheck(r)
        \/ DrainInsert(r)

Next == Reindex \/ CrawlStep \/ DrainStep

Spec == Init /\ [][Next]_vars

\* Runs over watched files of which some do not decode (c.gif) or do not
\* hash (h.bmp).
FailingEntries == {ImgPlain, ImgCorrupt, ImgUnhashable}

InitFailing == InitWith(SeqsUpTo(FailingEntries, MaxPipelineEntries))

SpecFailing == InitFailing /\ [][Next]_vars

\* ------------------------------------------------ engine.rs: tokenizer
\* A text is the sequence of its characters.
Quote == "\""

Backslash == "\\"

Space == " "

Tab == "\t"

\* The characters the tokenized texts are made of.
TokenAlphabet == {"a", "b", Space, Tab, Quote, Backslash}

\* engine.rs:472-475: the locals before the loop.
TokenizerStart ==
    [spans |-> <<>>, active_string |-> <<>>, next_character_escaped |-> FALSE,
     quote_active |-> FALSE]

\* The loop body with a space that breaks the word inside a quoted span too.
tokenize_step_space_breaks(st, character) ==
    IF st.next_character_escaped
    THEN [st EXCEPT !.active_string = Append(@, character),
                    !.next_character_escaped = FALSE]
    ELSE CASE character = Quote ->
                  IF ~st.quote_active
                  THEN [st EXCEPT !.quote_active = TRUE]
                  ELSE [st EXCEPT !.quote_active = FALSE,
                                  !.spans = Append(@, st.active_string),
                                  !.active_string = <<>>]
           [] character = Backslash -> [st EXCEPT !.next_character_escaped = TRUE]
           [] character = Space ->
                  IF st.active_string # <<>>
                  THEN [st EXCEPT !.spans = Append(@, st.active_string),
                                  !.active_string = <<>>]
                  ELSE st
           [] OTHER -> [st EXCEPT !.active_string = Append(@, character)]

\* The loop body with an escaped double quote that still closes a quoted span.
tokenize_step_escaped_quote_closes(st, character) ==
    IF st.next_character_escaped /\ ~(st.quote_active /\ character = Quote)
    THEN [st EXCEPT !.active_string = Append(@, character),
                    !.next_character_escaped = FALSE]
    ELSE CASE character = Quote ->
                  IF ~st.quote_active
                  THEN [st EXCEPT !.quote_active = TRUE]
                  ELSE [st EXCEPT !.quote_active = FALSE,
                                  !.next_character_escaped = FALSE,
                                  !.spans = Append(@, st.active_string),
                                  !.active_string = <<>>]
           [] character = Backslash -> [st EXCEPT !.next_character_escaped = TRUE]
           [] character = Space ->
                  IF st.quote_active
                  THEN [st EXCEPT !.active_string = Append(@, Space)]
                  ELSE IF st.active_string # <<>>
                       THEN [st EXCEPT !.spans = Append(@, st.active_string),
                                       !.active_string = <<>>]
                       ELSE st
           [] OTHER -> [st EXCEPT !.active_string = Append(@, character)]

\* engine.rs:476-511: the body of the loop for one character.
tokenize_step(st, character) ==
    IF st.next_character_escaped
    THEN [st EXCEPT !.active_string = Append(@, character),
                    !.next_character_escaped = FALSE]
    ELSE CASE character = Quote ->
                  IF ~st.quote_active
                  THEN [st EXCEPT !.quote_active = TRUE]
                  ELSE [st EXCEPT !.quote_active = FALSE,
                                  !.spans = Append(@, st.active_string),
                                  !.active_string = <<>>]
           [] character = Backslash -> [st EXCEPT !.next_character_escaped = TRUE]
           [] character = Space ->
                  IF st.quote_active
                  THEN [st EXCEPT !.active_string = Append(@, Space)]
                  ELSE IF st.active_string # <<>>
                       THEN [st EXCEPT !.spans = Append(@, st.active_string),
                                       !.active_string = <<>>]
                       ELSE st
           [] OTHER -> [st EXCEPT !.active_string = Append(@, character)]

\* engine.rs:476: for character in query.chars(), from character i on.
RECURSIVE tokenize_loop(_, _, _)
tokenize_loop(query, i, st) ==
    IF i > Len(query) THEN st
    ELSE tokenize_loop(query, i + 1, tokenize_step(st, query[i]))

\* The end of tokenize_query without the test of a trailing escape.
tokenize_query_drops_escape(query) ==
    LET st == tokenize_loop(query, 1, TokenizerStart)
    IN  IF st.quote_active
        THEN Err("String tokenization failed: trailing open-quote.")
        ELSE Ok(IF st.active_string # <<>> THEN Append(st.spans, st.active_string)
                ELSE st.spans)

\* engine.rs:471-525.
tokenize_query(query) ==
    LET st == tokenize_loop(query, 1, TokenizerStart)
    IN  IF st.quote_active
        THEN Err("String tokenization failed: trailing open-quote.")
        ELSE IF st.next_character_escaped
        THEN Err("String tokenization failed: trailing escape character.")
        ELSE Ok(IF st.active_string # <<>> THEN Append(st.spans, st.active_string)
                ELSE st.spans)

\* A call of tokenize_query on the text.
TokenizeQuery ==
    /\ ~parsed_query.called
    /\ parsed_query' = tokenize_query(user_input)
    /\ UNCHANGED <<layout, nruns, disc, file_q, worker, image_q, drain, store, success_q,
                   failure_q, faults, hist, cached_index_size, user_input, query_result,
                   cached_search_results, cached_image_search, loads, where_clause,
                   ranking, apart>>

\* Any text of up to MaxQueryLen characters.
InitTokenize ==
    /\ InitPipeline({<<>>})
    /\ cached_index_size = None
    /\ user_input \in SeqsUpTo(TokenAlphabet, MaxQueryLen) \cup {<<>>}
    /\ parsed_query = NotCalled
    /\ query_result = NotCalled
    /\ cached_search_results = None
    /\ cached_image_search = None
    /\ loads = 0
    /\ where_clause = NotCalled
    /\ ranking = NotCalled
    /\ InitApart

NextTokenize == TokenizeQuery

SpecTokenize == InitTokenize /\ [][NextTokenize]_vars

\* ------------------------------------------------- engine.rs: query text
\* The characters of the names the model's files, paths and tags have.
Chars(s) ==
    CASE s = "/w/a.PNG" -> <<"/", "w", "/", "a", ".", "P", "N", "G">>
      [] s = "a.PNG" -> <<"a", ".", "P", "N", "G">>
      [] s = "/w/b.jpg" -> <<"/", "w", "/", "b", ".", "j", "p", "g">>
      [] s = "b.jpg" -> <<"b", ".", "j", "p", "g">>
      [] s = "/w/c.gif" -> <<"/", "w", "/", "c", ".", "g", "i", "f">>
      [] s = "c.gif" -> <<"c", ".", "g", "i", "f">>
      [] s = "Make" -> <<"M", "a", "k", "e">>
      [] s = "Acme" -> <<"A", "c", "m", "e">>

UpperCase == <<"A", "B", "C", "D", "E", "F", "G", "H", "I", "J", "K", "L", "M", "N", "O", "P", "Q", "R", "S", "T", "U", "V", "W", "X", "Y", "Z">>

LowerCase == <<"a", "b", "c", "d", "e", "f", "g", "h", "i", "j", "k", "l", "m", "n", "o", "p", "q", "r", "s", "t", "u", "v", "w", "x", "y", "z">>

\* u8::to_ascii_lowercase
AsciiLowerChar(c) ==
    IF \E i \in 1..Len(UpperCase) : UpperCase[i] = c
    THEN LowerCase[CHOOSE i \in 1..Len(UpperCase) : UpperCase[i] = c]
    ELSE c

\* str::to_lowercase, on ASCII text.
to_lowercase(t) == [i \in 1..Len(t) |-> AsciiLowerChar(t[i])]

\* str::eq_ignore_ascii_case on two texts.
text_eq_ignore_ascii_case(a, b) == to_lowercase(a) = to_lowercase(b)

\* str::split_once(':'): the text before and after the first ':', if any.
split_once(t) ==
    IF \E i \in 1..Len(t) : t[i] = ":"
    THEN LET i == CHOOSE k \in 1..Len(t) : t[k] = ":" /\ \A j \in 1..(k - 1) : t[j] # ":"
         IN  Some(<<SubSeq(t, 1, i - 1), SubSeq(t, i + 1, Len(t))>>)
    ELSE None

\* The working directory of the process, where the watched files are.
WorkingDirectory == <<"/", "w", "/">>

\* indexed_image.rs:37: File::open(path) on a case-sensitive file system:
\* the file the path names, absolute or relative to the working directory.
open_file(path) ==
    {layout[i] : i \in {k \in DOMAIN layout :
                          \/ Chars(layout[k].path) = path
                          \/ Chars(layout[k].path) = WorkingDirectory \o path}}

\* indexed_image.rs:36-46 for the path as typed: Err when the file cannot
\* be opened or read; the Record carries the canonical path
\* (stringify_filepath, indexed_image.rs:101-103), not the text given.
from_file_path_text(path) ==
    IF open_file(path) = {} THEN [result |-> "err", img |-> NoImage]
    ELSE LET e == CHOOSE f \in open_file(path) : TRUE
         IN  IF ~e.is_file THEN [result |-> "err", img |-> NoImage]
             ELSE from_file_path(e)

\* engine.rs:527-531: no clause yet; the cache is the Engine's field.
WhereStart(cache) == [clauses |-> <<>>, cache |-> cache, loads |-> 0, panicked |-> FALSE]

\* engine.rs:538-562: the similar: branch for the text after the prefix.
similar_branch(acc, remaining) ==
    LET needs_recalculation ==
            \/ ~acc.cache.some
            \/ ~text_eq_ignore_ascii_case(Chars(acc.cache.v.path), remaining)
    IN  IF ~needs_recalculation THEN acc
        ELSE LET indexed_image == from_file_path_text(remaining)
             IN  [acc EXCEPT
                     !.cache = IF indexed_image.result = "ok"
                               THEN Some(indexed_image.img) ELSE None,
                     !.loads = @ + 1,
                     !.panicked = @ \/ indexed_image.result = "panic"]

\* engine.rs:532-582: the body of the loop for one token.
where_step(acc, token) ==
    LET parts == split_once(token)
    IN  IF ~parts.some
        THEN [acc EXCEPT !.clauses = Append(@, [kind |-> "any", text |-> token])]
        ELSE LET magic_prefix == to_lowercase(parts.v[1])
                 remaining == parts.v[2]
                 a1 == IF magic_prefix = <<"s", "i", "m", "i", "l", "a", "r">>
                       THEN similar_branch(acc, remaining) ELSE acc
                 a2 == IF magic_prefix = <<"e", "x", "i", "f">>
                       THEN LET pair == split_once(remaining)
                            IN  IF pair.some
                                THEN [a1 EXCEPT !.clauses =
                                         Append(@, [kind |-> "exif_pair", tag |-> pair.v[1],
                                                    target |-> pair.v[2]])]
                                ELSE [a1 EXCEPT !.clauses =
                                         Append(@, [kind |-> "exif_any", text |-> remaining])]
                       ELSE a1
             IN  IF magic_prefix = <<"f", "i", "l", "e", "n", "a", "m", "e">>
                 THEN [a2 EXCEPT !.clauses =
                          Append(@, [kind |-> "filename", text |-> remaining])]
                 ELSE a2

\* engine.rs:527-585: the clauses that are joined with " AND ", the cache
\* after the call and the number of calls of IndexedImage::from_file_path.
RECURSIVE build_where_clause_from_parsed_query(_, _, _)
build_where_clause_from_parsed_query(tokens, i, acc) ==
    IF i > Len(tokens) THEN acc
    ELSE build_where_clause_from_parsed_query(tokens, i + 1, where_step(acc, tokens[i]))

\* engine.rs:338
QueryLimit == 100

\* SQLite's LIKE '%needle%' on ASCII text: somewhere in hay, ignoring case.
Like(hay, needle) ==
    \E off \in 0..(Len(hay) - Len(needle)) :
        \A k \in 1..Len(needle) : AsciiLowerChar(hay[off + k]) = AsciiLowerChar(needle[k])

\* The value stored with a tag name.
TagValue(name) == CASE name = "Make" -> "Acme"

\* The rows of images LEFT JOIN tags for one image: its tag rows, or the one
\* row whose tag columns are NULL.
NullTag == [null |-> TRUE]

JoinedTags(id) ==
    IF \E t \in tags : t.image_id = id
    THEN {[null |-> FALSE, name |-> Chars(t.name), value |-> Chars(TagValue(t.name))] :
             t \in {x \in tags : x.image_id = id}}
    ELSE {NullTag}

\* One clause of the WHERE on one joined row; LIKE on NULL is not true.
clause_holds(c, row, t) ==
    CASE c.kind = "any" ->
             \/ (~t.null /\ Like(t.value, c.text))
             \/ Like(Chars(row.filename), c.text)
             \/ Like(Chars(row.path), c.text)
      [] c.kind = "filename" -> Like(Chars(row.filename), c.text)
      [] c.kind = "exif_pair" -> ~t.null /\ Like(t.name, c.tag) /\ Like(t.value, c.target)
      [] c.kind = "exif_any" -> ~t.null /\ (Like(t.name, c.text) \/ Like(t.value, c.text))

\* engine.rs:306-370: the statement of query on the tables: the WHERE with
\* no clause does not parse (prepare fails); a reference with a visual hash
\* puts one ? into the statement and query_map is given no parameter
\* (InvalidParameterCount); otherwise the images that have a semantic hash
\* and a joined row on which every clause holds, in id order, dist 0.0.
execute_query(clauses, cache) ==
    IF clauses = <<>> THEN Err("prepare")
    ELSE IF cache.some /\ cache.v.visual_hash THEN Err("query_map")
    ELSE LET Selected(i) ==
                 /\ i \in semantic_hashes
                 /\ \E t \in JoinedTags(i) :
                       \A k \in 1..Len(clauses) : clause_holds(clauses[k], images[i], t)
             ids == SelectSeq([i \in 1..Len(images) |-> i], Selected)
             rows == [n \in 1..Len(ids) |->
                         [id |-> ids[n], path |-> images[ids[n]].path,
                          distance_from_query |-> Some(0)]]
         IN  Ok(IF Len(rows) > QueryLimit THEN SubSeq(rows, 1, QueryLimit) ELSE rows)

\* The call returned nothing the caller can use: the thread panicked.
Panicked == Err("panic")

\* convnet.rs: the embedding of the image a file holds, two bytes of it.
mlhash(path) ==
    CASE path = "/w/a.PNG" -> <<255, 0>>
      [] path = "/w/b.jpg" -> <<255, 128>>

\* The call, the reference it ranks by, if any, and the threshold at the
\* call.
RankedBy(call, reference) ==
    [called |-> TRUE, by |-> call, reference |-> reference,
     max_distance |-> max_distance_from_query]

\* What a call of query that returns early leaves: its result, the fields
\* as they were.
Unchanged(result) ==
    [query_result |-> result, parsed_query |-> parsed_query,
     cached_search_results |-> cached_search_results,
     cached_image_search |-> cached_image_search, loads |-> 0,
     where_clause |-> where_clause, ranking |-> ranking]

\* engine.rs:302-376: query from build_where_clause_from_parsed_query on.
run_query(parsed) ==
    LET w == build_where_clause_from_parsed_query(parsed.v, 1, WhereStart(cached_image_search))
        res == execute_query(w.clauses, w.cache)
    IN  [query_result |-> IF w.panicked THEN Panicked
                          ELSE IF res.ok THEN Ok("unit") ELSE Err(res.error),
         parsed_query |-> parsed,
         cached_search_results |-> IF ~w.panicked /\ res.ok THEN Some(res.v) ELSE None,
         cached_image_search |-> w.cache,
         loads |-> w.loads,
         where_clause |-> IF w.panicked THEN NotCalled ELSE Ok(w.clauses),
         ranking |-> RankedBy("query",
                              IF w.cache.some /\ w.cache.v.visual_hash
                              THEN Some(mlhash(w.cache.v.path)) ELSE None)]

\* query without the early return on the empty text.
query_without_bail(text) ==
    LET parsed == tokenize_query(text)
    IN  IF ~parsed.ok
        THEN [Unchanged(Err(parsed.error)) EXCEPT !.parsed_query = parsed]
        ELSE run_query(parsed)

\* query with the cached results cleared before the text is tokenized.
query_clears_first(text) ==
    IF text = <<>> THEN Unchanged(Ok("unit"))
    ELSE LET parsed == tokenize_query(text)
         IN  IF ~parsed.ok
             THEN [Unchanged(Err(parsed.error)) EXCEPT
                      !.parsed_query = parsed, !.cached_search_results = None]
             ELSE run_query(parsed)

\* engine.rs:285-377: the empty text returns at once; a text that does not
\* tokenize returns the error (the ? of engine.rs:301) before any field is
\* written.
query(text) ==
    IF text = <<>> THEN Unchanged(Ok("unit"))
    ELSE LET parsed == tokenize_query(text)
         IN  IF ~parsed.ok
             THEN [Unchanged(Err(parsed.error)) EXCEPT !.parsed_query = parsed]
             ELSE run_query(parsed)

\* A call of query(text): what it does to the Engine.
QueryCall(text) ==
    /\ query_result # Panicked
    /\ user_input' = text
    /\ \E q \in {query(text)} :
           /\ query_result' = q.query_result
           /\ parsed_query' = q.parsed_query
           /\ cached_search_results' = q.cached_search_results
           /\ cached_image_search' = q.cached_image_search
           /\ loads' = q.loads
           /\ where_clause' = q.where_clause
           /\ ranking' = q.ranking
    /\ UNCHANGED <<layout, nruns, disc, file_q, worker, image_q, drain, store, success_q,
                   failure_q, faults, hist, cached_index_size, unlocked>>

\* A call of query(text) by the user interface, the mutex taken and
\* released within the step.
Query(text) == QueryCall(text) /\ UNCHANGED locking

\* engine.rs:428
ClearQueryResults ==
    /\ query_result # Panicked
    /\ cached_search_results' = None
    /\ UNCHANGED <<layout, nruns, disc, file_q, worker, image_q, drain, store, success_q,
                   failure_q, faults, hist, cached_index_size, user_input, parsed_query,
                   query_result, cached_image_search, loads, where_clause, ranking,
                   apart>>

SimilarPrefix == <<"s", "i", "m", "i", "l", "a", "r", ":">>

\* The texts given to query: empty, plain words, prefixed terms, a quoted
\* span, similar: with the canonical path of a stored image, the same in
\* upper case, the path relative to the working directory (typed twice, the
\* prefix in two spellings), another image, a file that is no image, no
\* file at all, no file and a word, two terms, texts that do not tokenize,
\* and a word with a term of another prefix.
QueryTexts ==
    { <<>>,
      <<"b">>,
      <<"a", Space, "b">>,
      <<"x">>,
      <<"P", "N", "G">>,
      <<"e", "x", "i", "f", ":", "m", "a", "k", "e", ":", "a", "c">>,
      <<"t", "a", "g", ":", "m", "a", "k", "e">>,
      <<Quote, "a", Space, "b", Quote>>,
      <<"f", "i", "l", "e", "n", "a", "m", "e", ":", "a">>,
      <<"e", "x", "i", "f", ":", "m", "a", "k", "e">>,
      SimilarPrefix \o Chars("/w/b.jpg"),
      <<"S", "I", "M", "I", "L", "A", "R", ":", "/", "W", "/", "B", ".", "J", "P", "G">>,
      SimilarPrefix \o Chars("b.jpg"),
      <<"S", "i", "m", "i", "l", "a", "r", ":">> \o Chars("b.jpg"),
      SimilarPrefix \o Chars("/w/a.PNG"),
      SimilarPrefix \o Chars("/w/c.gif"),
      SimilarPrefix \o <<"/", "w", "/", "x">>,
      SimilarPrefix \o <<"/", "w", "/", "x", Space, "b">>,
      SimilarPrefix \o Chars("/w/b.jpg") \o <<Space, "b">>,
      <<Quote, "b">>,
      <<"b", Backslash>>,
      SimilarPrefix \o Chars("/w/a.PNG") \o <<Space, Quote>>,
      <<"b", Space, "a", "l", "l", ":", "b">> }

\* An Engine opened on the database that a run over the watched files
\* a.PNG, b.jpg and c.gif (which does not decode) has left.
InitQuery ==
    /\ layout = <<ImgUpper, ImgPlain, ImgCorrupt>>
    /\ InitThreads
    /\ images = << [id |-> 1, filename |-> ImgUpper.filename, path |-> ImgUpper.path],
                   [id |-> 2, filename |-> ImgPlain.filename, path |-> ImgPlain.path] >>
    /\ tags = {[image_id |-> 1, name |-> t] : t \in ImgUpper.tags}
    /\ phashes = {1, 2}
    /\ semantic_hashes = {1, 2}
    /\ InitSession
    /\ InitApart

NextQuery == (\E text \in QueryTexts : Query(text)) \/ ClearQueryResults

SpecQuery == InitQuery /\ [][NextQuery]_vars

\* ------------------------------------------------- engine.rs: progress
\* f32::max on the sum of the counters.
Max(a, b) == IF a >= b THEN a ELSE b

\* engine.rs:156-162: the quotient as the pair of its numerator and its
\* denominator; the usize values are far below 2^24, so each `as f32` is
\* exact and the f32 quotient lies in [0, 1] exactly when 0 <= num <= den.
get_indexing_progress ==
    LET num_unread == IF nruns > 0 THEN Len(file_q[nruns]) ELSE 0
        num_unprocessed == IF nruns > 0 THEN Len(image_q[nruns]) ELSE 0
        num_completed == IF nruns > 0 THEN Len(success_q[nruns]) ELSE 0
        num_indexed == IF cached_index_size.some THEN cached_index_size.v ELSE 0
    IN  [num |-> num_indexed,
         den |-> Max(1, num_indexed + num_unread + num_unprocessed + num_completed)]

\* engine.rs:169-179: SELECT COUNT(*) FROM images, cached.
GetNumIndexedImages ==
    /\ cached_index_size' = Some(Len(images))
    /\ UNCHANGED <<layout, nruns, disc, file_q, worker, image_q, drain, store, success_q,
                   failure_q, faults, hist, session, apart>>

NextProgress == Next \/ GetNumIndexedImages

\* Runs over at least one watched file, with the count taken at any moment.
InitProgress == InitWith(SeqsUpTo(PipelineEntries, MaxProgressEntries)) /\ Len(layout) > 0

SpecProgress == InitProgress /\ [][NextProgress]_vars

\* -------------------------------------------------- stop (from the spec)
\* The Engine under src/ has no stop operation; ui/folders.rs:50-54 calls
\* engine.stop_indexing() from a button shown while is_indexing_active().
\* Section 4.5 of the specification: stop signals cooperative cancellation by
\* closing the discovery-to-extraction queue; the paths still queued are
\* dropped with it, discovery ends, and no thread is interrupted.
StopIndexing ==
    /\ nruns > 0
    /\ is_indexing_active
    /\ ~hist[nruns].stopped
    /\ file_q' = [file_q EXCEPT ![nruns] = <<>>]
    /\ disc' = [disc EXCEPT ![nruns].pc = "done"]
    /\ hist' = [hist EXCEPT
                   ![nruns].stopped = TRUE,
                   ![nruns].busy_at_stop = {w \in Workers : worker[nruns][w].pc = "busy"},
                   ![nruns].finished = {}]
    /\ UNCHANGED <<layout, nruns, worker, image_q, drain, store, success_q, failure_q,
                   faults, cached_index_size, session, apart>>

\* The first press of Reindex.
FirstReindex == nruns = 0 /\ Reindex

\* One run and the stop button.
NextStop == FirstReindex \/ CrawlStep \/ DrainStep \/ StopIndexing

\* Runs over two watched files: a stop can find one path with a worker and
\* the other still queued.
InitStop == InitWith(SeqsUpTo(PipelineEntries, MaxPipelineEntries)) /\ Len(layout) = MaxPipelineEntries

\* Discovery, the workers and the drain thread are operating system threads:
\* a thread that can take a step eventually takes one.
SpecStop ==
    /\ InitStop
    /\ [][NextStop]_vars
    /\ \A r \in Runs :
          /\ WF_vars(Discover(r) \/ DiscoverEnd(r))
          /\ WF_vars(DrainRecv(r) \/ DrainExit(r) \/ DrainCheck(r) \/ DrainInsert(r))
          /\ \A w \in Workers :
                WF_vars(WorkerRecv(r, w) \/ WorkerExit(r, w) \/ WorkerProcess(r, w))

\* ================================================================ claims
\* Every thread of run r has ended, by a failed recv() or by a panic.
ThreadsEnded(r) ==
    /\ disc[r].pc = "done"
    /\ \A w \in Workers : worker[r][w].pc \in {"done", "dead"}
    /\ drain[r].pc \in {"done", "dead"}

\* The threads of the crawl of run r have ended.
CrawlEnded(r) ==
    /\ disc[r].pc = "done"
    /\ \A w \in Workers : worker[r][w].pc \in {"done", "dead"}

SupportedExtension(ext) ==
    \E i \in 1..Len(SUPPORTED_IMAGE_EXTENSIONS) :
        ToAsciiLower(ext) = SUPPORTED_IMAGE_EXTENSIONS[i]

\* A regular file with a supported extension that decodes and hashes.
GoodImage(e) == e.is_file /\ SupportedExtension(e.extension) /\ e.content = "image"

\* A regular file with a supported extension that fails to decode or to hash.
FailingImage(e) == e.is_file /\ SupportedExtension(e.extension) /\ e.content # "image"

GoodDiscoveries == {i \in DOMAIN layout : GoodImage(layout[i])}

GoodFiles == {layout[i] : i \in GoodDiscoveries}

\* The drain thread of run r takes the step that leaves pc.
DrainLeaves(r, pc) == drain[r].pc = pc /\ drain'[r] # drain[r]

\* C1: in every reachable state no two rows of the images table have the
\* same path.
C1_UniquePaths ==
    \A i, j \in 1..Len(images) : images[i].path = images[j].path => i = j

C3_DrainOutcomes ==
    [][\A r \in Runs :
          /\ (DrainLeaves(r, "check") /\ drain'[r].pc = "recv") =>
                exists_by_path(drain[r].img.path) /\ store' = store /\ hist'[r] = hist[r]
          /\ (DrainLeaves(r, "check") /\ drain'[r].pc = "insert") =>
                ~exists_by_path(drain[r].img.path)
          /\ DrainLeaves(r, "insert") =>
                /\ drain'[r].pc = "recv"
                /\ \/ /\ Len(images') = Len(images) + 1
                      /\ hist'[r].succ = hist[r].succ + 1
                      /\ hist'[r].fail = hist[r].fail
                   \/ /\ hist'[r].succ = hist[r].succ
                      /\ hist'[r].fail = hist[r].fail + 1]_vars

\* C4: a failed insert_image leaves no row of the Record in any table.
C4_InsertAllOrNothing ==
    [][\A r \in Runs :
          (DrainLeaves(r, "insert") /\ hist'[r].succ = hist[r].succ) => store' = store]_vars

\* C5: insert_image called with a path that is already stored fails and
\* leaves the tables unchanged.
C5_InsertConflict ==
    [][\A r \in Runs :
          (DrainLeaves(r, "insert") /\ exists_by_path(drain[r].img.path)) =>
              /\ store' = store
              /\ hist'[r].succ = hist[r].succ
              /\ hist'[r].fail = hist[r].fail + 1]_vars

\* C6: when the threads of a run have ended, each has ended by leaving its
\* receive loop, and the drain thread has stored or dropped every Record
\* that the workers produced.
C6_RunFinishes ==
    \A r \in 1..nruns :
        ThreadsEnded(r) => RunComplete(r) /\ hist[r].imgs_recv = hist[r].imgs_sent

\* C7: nothing is duplicated and nothing is lost between the discovery
\* thread and the drain thread: what was sent is queued or was received
\* once, and when the threads of the run have ended every path sent was
\* received by a worker and every Record sent by the drain thread.
C7_ExactlyOnce ==
    \A r \in 1..nruns :
        /\ hist[r].paths_sent = hist[r].paths_recv + Len(file_q[r])
        /\ hist[r].imgs_sent = hist[r].imgs_recv + Len(image_q[r])
        /\ ThreadsEnded(r) =>
              /\ hist[r].paths_recv = hist[r].paths_sent
              /\ hist[r].imgs_recv = hist[r].imgs_sent

\* Every Record of the crawl comes from a regular file with a supported
\* extension.
RecordsOnlyForImages(r) ==
    \A i \in 1..Len(image_q[r]) :
        \E k \in DOMAIN layout :
            /\ layout[k].path = image_q[r][i].path
            /\ layout[k].is_file
            /\ SupportedExtension(layout[k].extension)

\* No supported-extension file of the layout fails to decode or to hash.
NoFailingImage == \A k \in DOMAIN layout : ~FailingImage(layout[k])

\* C8 as stated: Records only for regular files with a supported extension,
\* and a finished crawl over k decodable supported-extension files and
\* other files of unsupported extension has yielded k Records.
C8_CrawlYieldsOnePerFile ==
    \A r \in 1..nruns :
        /\ RecordsOnlyForImages(r)
        /\ (CrawlEnded(r) /\ NoFailingImage) =>
               Len(image_q[r]) = Cardinality(GoodFiles)

\* C8 amended: Records only for regular files with a supported extension,
\* and a finished crawl has yielded one Record per discovery of a decodable
\* supported-extension file: k Records for k such files each matched by one
\* watched glob, more when watched globs overlap.
C8_CrawlYieldsOnePerDiscovery ==
    \A r \in 1..nruns :
        /\ RecordsOnlyForImages(r)
        /\ (CrawlEnded(r) /\ NoFailingImage) =>
               Len(image_q[r]) = Cardinality(GoodDiscoveries)

\* C8 witness: a finished crawl over two images and a file of unsupported
\* extension that holds an image has yielded two Records.
C8_Witness ==
    /\ nruns = 1
    /\ CrawlEnded(1)
    /\ NoFailingImage
    /\ Cardinality(GoodFiles) = 2
    /\ \E k \in DOMAIN layout : layout[k] = ImgOtherExt
    /\ Len(image_q[1]) = 2

\* C9: a decode or hash failure stops no worker, and a finished crawl has
\* yielded the Record of every discovery of a decodable file.
C9_FailureNonFatal ==
    \A r \in 1..nruns :
        /\ \A w \in Workers : worker[r][w].pc # "dead"
        /\ CrawlEnded(r) => Len(image_q[r]) = Cardinality(GoodDiscoveries)

\* C10: neither queue ever holds more items than its capacity.
C10_QueuesBounded ==
    \A r \in Runs :
        /\ Len(file_q[r]) <= QueueCapacity
        /\ Len(image_q[r]) <= QueueCapacity

\* Run r has been started and one of its threads (discovery, a worker, the
\* drain thread) has not ended.
RunInProgress(r) ==
    /\ r <= nruns
    /\ ~ThreadsEnded(r)

\* C11: a call of start_reindexing made while an earlier run has not finished
\* has no effect: a step that starts a run (new crawler, new drain thread,
\* new completion and failure channels) is taken only when every thread of
\* every earlier run has ended.
C11_StartNoOpWhileRunning ==
    [][nruns' # nruns => \A r \in Runs : ~RunInProgress(r)]_vars

\* The latest run still has work the claim of C12 names: undiscovered or
\* queued paths, an extraction in flight, a Record produced and not yet
\* handled by the drain thread.
RunHasWork(r) ==
    \/ disc[r].pc = "run" /\ disc[r].next <= Len(layout)
    \/ file_q[r] # <<>>
    \/ \E w \in Workers : worker[r][w].pc = "busy"
    \/ image_q[r] # <<>>
    \/ drain[r].pc \in {"check", "insert"}

\* C12: is_indexing_active returns true in every state where the run the
\* Engine holds still has undiscovered or queued paths, an extraction in
\* flight or a Record the drain thread has not finished handling.
C12_ActiveWhileWorkRemains ==
    (nruns > 0 /\ RunHasWork(nruns)) => is_indexing_active

\* Run r was stopped and nothing of it is left: the extractions that were in
\* progress at the stop have run to their end, every thread has ended and
\* the supervisor reports no indexing.
StoppedAndIdle(r) ==
    /\ hist[r].stopped
    /\ hist[r].busy_at_stop \subseteq hist[r].finished
    /\ ThreadsEnded(r)
    /\ ~is_indexing_active

Pending == IF nruns > 0 THEN Len(file_q[nruns]) ELSE 0

\* Paths taken by a worker whose Record is not stored yet: extractions in
\* progress, Records queued for the drain thread, the Record it holds.
InFlight ==
    IF nruns > 0
    THEN Cardinality({w \in Workers : worker[nruns][w].pc = "busy"})
             + Len(image_q[nruns])
             + (IF drain[nruns].pc \in {"check", "insert"} THEN 1 ELSE 0)
    ELSE 0

\* C14 as stated: get_indexing_progress returns
\* indexed / (indexed + pending + in_flight) with the denominator clamped to
\* at least 1, lies between 0 and 1, and is 0 when nothing has been indexed.
C14_ProgressFormula ==
    LET indexed == IF cached_index_size.some THEN cached_index_size.v ELSE 0
        p == get_indexing_progress
    IN  /\ p.num = indexed
        /\ p.den = Max(1, indexed + Pending + InFlight)
        /\ 0 <= p.num /\ p.num <= p.den
        /\ (indexed = 0 => p.num = 0)

\* What does hold of get_indexing_progress: its denominator is at least 1
\* and the result lies between 0 and 1 inclusive; it is 0 when no image
\* count is cached or the cached count is 0, and it is 1 when a positive
\* count is cached and no path, Record or completion message is queued,
\* whatever the workers are doing.
ProgressInRange ==
    LET indexed == IF cached_index_size.some THEN cached_index_size.v ELSE 0
        queued == IF nruns > 0
                  THEN Len(file_q[nruns]) + Len(image_q[nruns]) + Len(success_q[nruns])
                  ELSE 0
        p == get_indexing_progress
    IN  /\ p.den >= 1
        /\ 0 <= p.num /\ p.num <= p.den
        /\ (indexed = 0 => p.num = 0)
        /\ (indexed > 0 /\ queued = 0 => p.num = p.den)
        /\ (indexed > 0 /\ queued > 0 => p.num < p.den)

\* A count of 1 is cached while the second run has its Record queued for
\* the drain thread: the progress is 1/2.
ProgressHalf ==
    /\ cached_index_size = Some(1)
    /\ nruns = 2
    /\ Len(image_q[nruns]) = 1
    /\ get_indexing_progress = [num |-> 1, den |-> 2]

\* The number of consecutive backslashes right before character i of u.
BackslashRun(u, i) ==
    CHOOSE n \in 0..(i - 1) :
        /\ \A j \in (i - n)..(i - 1) : u[j] = Backslash
        /\ (n = i - 1 \/ u[i - n - 1] # Backslash)

\* Character i of u is escaped: an odd number of backslashes precedes it.
Escaped(u, i) == BackslashRun(u, i) % 2 = 1

\* The double quotes of u[1..i] that are not escaped.
QuoteMarks(u, i) == {j \in 1..i : u[j] = Quote /\ ~Escaped(u, j)}

\* u[1..i] ends inside an open double-quoted span.
InsideQuote(u, i) == Cardinality(QuoteMarks(u, i)) % 2 = 1

\* u ends with a backslash that is not itself escaped.
EndsWithEscape(u) == Len(u) > 0 /\ u[Len(u)] = Backslash /\ ~Escaped(u, Len(u))

\* C18: tokenize_query returns an error, and no token list, exactly for the
\* texts that end inside an open double-quoted span or end with an escape
\* character that escapes nothing; for every other text it returns a token
\* list.
C18_TokenizeErrors ==
    parsed_query.called =>
        IF InsideQuote(user_input, Len(user_input)) \/ EndsWithEscape(user_input)
        THEN ~parsed_query.ok /\ "v" \notin DOMAIN parsed_query
        ELSE parsed_query.ok /\ "v" \in DOMAIN parsed_query

\* A text with a closed quoted span and a trailing escape was tokenized,
\* and the result is an error.
C18_Witness ==
    /\ parsed_query.called
    /\ ~parsed_query.ok
    /\ EndsWithEscape(user_input)
    /\ ~InsideQuote(user_input, Len(user_input))
    /\ QuoteMarks(user_input, Len(user_input)) # {}

\* The positions of u, in order, that satisfy Test.
Positions(u, Test(_)) == SelectSeq([k \in 1..Len(u) |-> k], Test)

\* The tokens of u when it is cut at the positions IsSep names: between two
\* cuts the characters that are escaped, or are neither a backslash, a
\* double quote nor a cut, make one token, in their order; a piece without
\* such a character is a token only if Keep says so for the cut ending it
\* (0 at the end of the text).
TokensCutAt(u, IsSep(_), Keep(_, _, _)) ==
    LET cuts == Positions(u, IsSep)
        first(k) == IF k = 1 THEN 1 ELSE cuts[k - 1] + 1
        last(k) == IF k <= Len(cuts) THEN cuts[k] - 1 ELSE Len(u)
        cut(k) == IF k <= Len(cuts) THEN cuts[k] ELSE 0
        Literal(i) == Escaped(u, i) \/ (u[i] \notin {Quote, Backslash} /\ ~IsSep(i))
        content(k) ==
            LET InPiece(i) == first(k) <= i /\ i <= last(k) /\ Literal(i)
                at == Positions(u, InPiece)
            IN  [n \in 1..Len(at) |-> u[at[n]]]
        Kept(k) == content(k) # <<>> \/ Keep(first(k), last(k), cut(k))
        kept == SelectSeq([k \in 1..(Len(cuts) + 1) |-> k], Kept)
    IN  [n \in 1..Len(kept) |-> content(kept[n])]

\* Character i of u is whitespace outside every double-quoted span.
UnquotedWhitespace(u, i) ==
    ~Escaped(u, i) /\ u[i] \in {Space, Tab} /\ ~InsideQuote(u, i)

\* Character i of u is a space outside every double-quoted span.
UnquotedSpace(u, i) == ~Escaped(u, i) /\ u[i] = Space /\ ~InsideQuote(u, i)

\* Character i of u is the double quote that closes a span.
ClosingQuote(u, i) == ~Escaped(u, i) /\ u[i] = Quote /\ InsideQuote(u, i - 1)

\* C19 as stated: the tokens are the pieces of the text between whitespace
\* outside double-quoted spans and nothing else cuts: pieces without
\* content give no token unless they hold a quoted span, the quote
\* characters are dropped and the characters of a span, spaces included,
\* stay in one token together with what touches the span.
C19_SplitAtWhitespaceOnly ==
    parsed_query.called /\ parsed_query.ok =>
        LET u == user_input
            IsSep(i) == UnquotedWhitespace(u, i)
            Keep(a, b, c) == QuoteMarks(u, b) \ QuoteMarks(u, a - 1) # {}
        IN  parsed_query.v = TokensCutAt(u, IsSep, Keep)

\* C19 as amended: the text is cut at every space (U+0020) outside
\* double-quoted spans and at the closing quote of every span, and nowhere
\* else (a tab is an ordinary character): runs of spaces give no empty
\* token, a piece ended by a closing quote is a token even when empty, the
\* quote characters are dropped and the spaces inside a span are kept.
C19_SplitAtSpaceAndClosingQuote ==
    parsed_query.called /\ parsed_query.ok =>
        LET u == user_input
            IsSep(i) == UnquotedSpace(u, i) \/ ClosingQuote(u, i)
            Keep(a, b, c) == c > 0 /\ u[c] = Quote
        IN  parsed_query.v = TokensCutAt(u, IsSep, Keep)

\* The text "a b"b was tokenized: the span keeps its space and the token
\* ends at the closing quote.
C19_Witness ==
    /\ user_input = <<Quote, "a", Space, "b", Quote>>
    /\ parsed_query = Ok(<< <<"a", Space, "b">> >>)

\* The tokens one after the other.
RECURSIVE Concat(_)
Concat(ss) == IF ss = <<>> THEN <<>> ELSE Head(ss) \o Concat(Tail(ss))

\* The characters of u the tokens are made of: the escaped ones, and the
\* others except backslashes, double quotes and spaces outside spans.
TokenCharacters(u) ==
    LET Literal(i) ==
            Escaped(u, i) \/ (u[i] \notin {Quote, Backslash} /\ ~UnquotedSpace(u, i))
        at == Positions(u, Literal)
    IN  [n \in 1..Len(at) |-> u[at[n]]]

\* In u[1..i], where character i is escaped, the escaped character is
\* handled as the letter a would be in its place: with the open span closed,
\* both texts tokenize, into the same number of tokens, equal but for the
\* last character of the last token, which is the escaped character itself.
EscapedLikeLetter(u, i) ==
    LET q == SubSeq(u, 1, i - 2)
        close == IF InsideQuote(q, Len(q)) THEN <<Quote>> ELSE <<>>
        A == tokenize_query(q \o <<"a">> \o close)
        B == tokenize_query(q \o <<Backslash, u[i]>> \o close)
    IN  /\ A.ok /\ B.ok
        /\ Len(B.v) = Len(A.v)
        /\ \A k \in 1..(Len(A.v) - 1) : B.v[k] = A.v[k]
        /\ LET a == A.v[Len(A.v)]
               b == B.v[Len(B.v)]
           IN  /\ Len(b) = Len(a)
               /\ \A n \in 1..(Len(a) - 1) : b[n] = a[n]
               /\ a[Len(a)] = "a"
               /\ b[Len(b)] = u[i]

\* C20: a backslash makes the next character literal, inside or outside a
\* quoted span: the tokens together are the characters of the text without
\* the escaping backslashes, the unescaped double quotes and the spaces
\* outside spans, each escaped character verbatim; and an escaped character,
\* be it a double quote, a space or a backslash, opens, closes and ends
\* nothing more than the letter a would in its place.
C20_EscapeMakesLiteral ==
    parsed_query.called =>
        /\ parsed_query.ok => Concat(parsed_query.v) = TokenCharacters(user_input)
        /\ \A i \in 1..Len(user_input) :
              Escaped(user_input, i) => EscapedLikeLetter(user_input, i)

\* The text \ \" (an escaped space, then an escaped double quote) was
\* tokenized into the single token made of a space and a double quote.
C20_Witness ==
    /\ user_input = <<Backslash, Space, Backslash, Quote>>
    /\ parsed_query = Ok(<< <<Space, Quote>> >>)

\* The paths of the similar: terms of a token list.
SimilarPaths(tokens) ==
    {split_once(tokens[k]).v[2] :
        k \in {n \in 1..Len(tokens) :
                  /\ split_once(tokens[n]).some
                  /\ to_lowercase(split_once(tokens[n]).v[1])
                         = <<"s", "i", "m", "i", "l", "a", "r">>}}

\* Both token lists have one similar: term, with the same path up to ASCII case.
SameSimilarTerm(t1, t2) ==
    /\ Cardinality(SimilarPaths(t1)) = 1
    /\ Cardinality(SimilarPaths(t2)) = 1
    /\ \A p1 \in SimilarPaths(t1), p2 \in SimilarPaths(t2) :
          to_lowercase(p1) = to_lowercase(p2)

\* C15: when a query with similar:P has cached a reference and the next
\* query has the same similar:P (up to ASCII case), the second query makes
\* no call of IndexedImage::from_file_path and leaves the cached reference
\* as it was.
C15_SimilarMemoized ==
    [][\A text \in QueryTexts :
          (/\ Query(text)
           /\ user_input # <<>>
           /\ parsed_query.called /\ parsed_query.ok
           /\ cached_image_search.some
           /\ parsed_query'.ok
           /\ SameSimilarTerm(parsed_query.v, parsed_query'.v))
              => (loads' = 0 /\ cached_image_search' = cached_image_search)]_vars

\* C16: query with the empty text returns Ok and leaves the cached result
\* set and the cached similarity reference as they were.
C16_EmptyQueryChangesNothing ==
    [][Query(<<>>) =>
          /\ query_result' = Ok("unit")
          /\ cached_search_results' = cached_search_results
          /\ cached_image_search' = cached_image_search
          /\ UNCHANGED store]_vars

\* An empty query was made while a result set with a row was cached, and
\* the rows are still there.
C16_Witness ==
    /\ user_input = <<>>
    /\ query_result = Ok("unit")
    /\ cached_search_results.some
    /\ cached_search_results.v # <<>>

\* The text does not tokenize: it ends inside a quoted span or with an escape.
Malformed(text) == InsideQuote(text, Len(text)) \/ EndsWithEscape(text)

\* C17: query with a text that does not tokenize returns the error to the
\* caller and leaves the cached result set and the cached similarity
\* reference as they were.
C17_MalformedQueryChangesNothing ==
    [][\A text \in QueryTexts :
          (Query(text) /\ Malformed(text)) =>
              /\ query_result'.called /\ ~query_result'.ok
              /\ cached_search_results' = cached_search_results
              /\ cached_image_search' = cached_image_search]_vars

\* A malformed query with a similar: term was made while a result set with
\* a row was cached: the error is reported, the rows are still there and
\* no reference was loaded.
C17_Witness ==
    /\ Malformed(user_input)
    /\ split_once(user_input).some
    /\ ~query_result.ok
    /\ cached_search_results.some
    /\ cached_search_results.v # <<>>
    /\ ~cached_image_search.some

\* ------------------------------------------------ f32 arithmetic (IEEE 754)
\* An f32 is (-1)^s * m * 2^e with m = 0 or 2^23 <= m < 2^24; every
\* operation rounds its exact result to the nearest such number, ties to the
\* even mantissa.  The values of the distance functions stay far from the
\* subnormal range and from overflow, which are not modelled.
RECURSIVE Pow2(_)
Pow2(n) == IF n = 0 THEN 1 ELSE 2 * Pow2(n - 1)

RECURSIVE BitLen(_)
BitLen(n) == IF n = 0 THEN 0 ELSE 1 + BitLen(n \div 2)

F32Zero == [s |-> 0, m |-> 0, e |-> 0]

\* f32::NAN, the value of 0.0 / 0.0
F32NaN == [s |-> 0, m |-> -1, e |-> 0]

\* The f32 nearest to n * 2^e.  The lowest bit of n may stand for bits
\* below it that are not all zero (then n has at least 26 bits).
f32_round(s, n, e) ==
    IF n = 0 THEN F32Zero
    ELSE LET len == BitLen(n)
         IN  IF len <= 24
             THEN [s |-> s, m |-> n * Pow2(24 - len), e |-> e - (24 - len)]
             ELSE LET k == len - 24
                      q == n \div Pow2(k)
                      r == n % Pow2(k)
                      half == Pow2(k - 1)
                      m == IF r > half \/ (r = half /\ q % 2 = 1) THEN q + 1 ELSE q
                  IN  IF m = Pow2(24) THEN [s |-> s, m |-> Pow2(23), e |-> e + k + 1]
                      ELSE [s |-> s, m |-> m, e |-> e + k]

\* u8 as f32, usize as f32 (exact below 2^24).
f32_from(n) == f32_round(0, n, 0)

f32_neg(x) == IF x.m = 0 THEN x ELSE [x EXCEPT !.s = 1 - @]

f32_abs(x) == [x EXCEPT !.s = 0]

\* |x| < |y|
f32_mag_lt(x, y) ==
    IF x.m = 0 THEN y.m # 0
    ELSE IF y.m = 0 THEN FALSE
    ELSE x.e < y.e \/ (x.e = y.e /\ x.m < y.m)

\* x < y; no comparison with NaN is true
f32_lt(x, y) ==
    IF x = F32NaN \/ y = F32NaN THEN FALSE
    ELSE IF x.s = 1 /\ y.s = 1 THEN f32_mag_lt(y, x)
    ELSE IF x.s = 1 THEN x.m # 0 \/ y.m # 0
    ELSE IF y.s = 1 THEN FALSE
    ELSE f32_mag_lt(x, y)

\* f32::max
f32_max(x, y) == IF f32_lt(x, y) THEN y ELSE x

\* n shifted right by d bits, the lowest bit set when a bit was shifted out.
ShiftRightSticky(n, d) ==
    IF d >= 30 THEN (IF n # 0 THEN 1 ELSE 0)
    ELSE LET q == n \div Pow2(d)
         IN  IF n % Pow2(d) # 0 THEN (q - (q % 2)) + 1 ELSE q

\* x + y
f32_add(x, y) ==
    IF x.m = 0 THEN y
    ELSE IF y.m = 0 THEN x
    ELSE LET big == IF f32_mag_lt(x, y) THEN y ELSE x
             small == IF f32_mag_lt(x, y) THEN x ELSE y
             b == big.m * 8
             a == ShiftRightSticky(small.m * 8, big.e - small.e)
         IN  IF big.s = small.s THEN f32_round(big.s, b + a, big.e - 3)
             ELSE f32_round(big.s, b - a, big.e - 3)

\* x - y
f32_sub(x, y) == f32_add(x, f32_neg(y))

\* x * y: the 48-bit product of the mantissas from 12-bit halves.
f32_mul(x, y) ==
    IF x.m = 0 \/ y.m = 0 THEN F32Zero
    ELSE LET a1 == x.m \div 4096
             b1 == x.m % 4096
             a2 == y.m \div 4096
             b2 == y.m % 4096
             mid == a1 * b2 + a2 * b1
             low == (mid % 4096) * 4096 + b1 * b2
             high == a1 * a2 + (mid \div 4096) + (low \div 16777216)
             rest == low % 16777216
             sticky == IF rest % 4194304 # 0 THEN 1 ELSE 0
         IN  f32_round((x.s + y.s) % 2, high * 8 + (rest \div 4194304) * 2 + sticky,
                       x.e + y.e + 21)

\* The quotient bits of r / d after the binary point, n more of them.
RECURSIVE DivBits(_, _, _, _)
DivBits(q, r, d, n) ==
    IF n = 0 THEN [q |-> q, r |-> r]
    ELSE IF 2 * r >= d THEN DivBits(2 * q + 1, 2 * r - d, d, n - 1)
    ELSE DivBits(2 * q, 2 * r, d, n - 1)

\* x / y for y # 0, and 0 / 0
f32_div(x, y) ==
    IF x.m = 0 THEN (IF y.m = 0 THEN F32NaN ELSE F32Zero)
    ELSE LET qr == DivBits(x.m \div y.m, x.m % y.m, y.m, 26)
             sticky == IF qr.r # 0 THEN 1 ELSE 0
         IN  f32_round((x.s + y.s) % 2, 2 * qr.q + sticky, x.e - y.e - 27)

\* The square root of the number whose binary digits are the pairs of bits
\* of n from pair i down to pair 0, followed by z pairs of zero bits.
RECURSIVE SqrtBits(_, _, _, _, _)
SqrtBits(root, rem, n, i, z) ==
    IF i < 0 /\ z = 0 THEN [root |-> root, rem |-> rem]
    ELSE LET pair == IF i >= 0 THEN (n \div Pow2(2 * i)) % 4 ELSE 0
             r == 4 * rem + pair
             trial == 4 * root + 1
             ni == IF i >= 0 THEN i - 1 ELSE i
             nz == IF i >= 0 THEN z ELSE z - 1
         IN  IF r >= trial THEN SqrtBits(2 * root + 1, r - trial, n, ni, nz)
             ELSE SqrtBits(2 * root, r, n, ni, nz)

\* f32::sqrt for x >= 0
f32_sqrt(x) ==
    IF x.m = 0 THEN F32Zero
    ELSE LET odd == x.e % 2 = 1
             n == IF odd THEN 2 * x.m ELSE x.m
             e == IF odd THEN x.e - 1 ELSE x.e
             sr == SqrtBits(0, 0, n, 12, 13)
             sticky == IF sr.rem # 0 THEN 1 ELSE 0
         IN  f32_round(0, 2 * sr.root + sticky, (e \div 2) - 14)

\* ------------------------------------------- engine.rs: distance functions
\* phash.rs:8: 16x16 pixels = 256 bits = 32 bytes.
PhashBytes == 32

\* convnet.rs:11: the bytes of a visual hash.
MODEL_LATENT_SIZE == 128

\* The byte values the vectors are made of: 0x00, 0x0F, 0xFF.
HashBytes == {0, 15, 255}

\* The empty vector, every short vector, and the vectors of the two lengths the tables hold
\* with one value in every byte.
HashVectors ==
    {<<>>} \cup SeqsUpTo(HashBytes, MaxHashLen)
        \cup {[i \in 1..n |-> v] : n \in {PhashBytes, MODEL_LATENT_SIZE}, v \in HashBytes}

\* Bit k of a byte.
Bit(n, k) == (n \div Pow2(k)) % 2

\* a ^ b on u8.
xor_u8(a, b) ==
    LET x == [k \in 0..7 |-> (Bit(a, k) + Bit(b, k)) % 2]
    IN  x[0] + 2 * x[1] + 4 * x[2] + 8 * x[3] + 16 * x[4] + 32 * x[5] + 64 * x[6] + 128 * x[7]

\* engine.rs:617-622: the loop that counts the bits of diff.
RECURSIVE bits_set(_)
bits_set(diff) == IF diff = 0 THEN 0 ELSE (diff % 2) + bits_set(diff \div 2)

\* Iterator::zip: as many pairs as the shorter vector has bytes.
ZipLen(a, b) == IF Len(a) < Len(b) THEN Len(a) ELSE Len(b)

\* The folds below take the pairs lo..hi in order, one after the other:
\* those of the left half, then those of the right half.  (The test on the
\* sum of the left half only makes it be computed before the right half is
\* entered.)

\* Iterator::sum::<u8>() over the counts of the pairs lo..hi: the sum leaves
\* the range of u8 by a panic when the build checks overflow and modulo 256
\* when it does not.
RECURSIVE sum_u8(_, _, _, _, _)
sum_u8(a, b, lo, hi, acc) ==
    IF lo > hi \/ acc.panicked THEN acc
    ELSE IF lo = hi
    THEN LET next == acc.v + bits_set(xor_u8(a[lo], b[lo]))
         IN  IF next > 255 /\ overflow_checks THEN [panicked |-> TRUE, v |-> acc.v]
             ELSE [panicked |-> FALSE, v |-> next % 256]
    ELSE sum_u8(a, b, ((lo + hi) \div 2) + 1, hi, sum_u8(a, b, lo, (lo + hi) \div 2, acc))

\* The call did not return: the thread panicked.
Panic == Err("panic")

\* engine.rs:614-624
hamming_distance(a, b) ==
    LET sum == sum_u8(a, b, 1, ZipLen(a, b), [panicked |-> FALSE, v |-> 0])
    IN  IF sum.panicked THEN Panic
        ELSE Ok(f32_div(f32_from(sum.v), f32_mul(f32_from(8), f32_from(Len(a)))))

\* The fold of byte_distance without abs().
RECURSIVE fold_abs_signed(_, _, _, _, _)
fold_abs_signed(a, b, lo, hi, init) ==
    IF lo > hi THEN init
    ELSE IF lo = hi THEN f32_add(init, f32_sub(f32_from(a[lo]), f32_from(b[lo])))
    ELSE LET left == fold_abs_signed(a, b, lo, (lo + hi) \div 2, init)
         IN  IF left.m = 0 THEN fold_abs_signed(a, b, ((lo + hi) \div 2) + 1, hi, F32Zero)
             ELSE fold_abs_signed(a, b, ((lo + hi) \div 2) + 1, hi, left)

\* engine.rs:611: fold(0f32, |init, (a, b)| init + (a as f32 - b as f32).abs())
\* over the pairs lo..hi.
RECURSIVE fold_abs(_, _, _, _, _)
fold_abs(a, b, lo, hi, init) ==
    IF lo > hi THEN init
    ELSE IF lo = hi
    THEN f32_add(init, f32_abs(f32_sub(f32_from(a[lo]), f32_from(b[lo]))))
    ELSE LET left == fold_abs(a, b, lo, (lo + hi) \div 2, init)
         IN  IF left.m = 0 THEN fold_abs(a, b, ((lo + hi) \div 2) + 1, hi, F32Zero)
             ELSE fold_abs(a, b, ((lo + hi) \div 2) + 1, hi, left)

\* engine.rs:610-612
byte_distance(a, b) ==
    Ok(f32_div(fold_abs(a, b, 1, ZipLen(a, b), F32Zero),
               f32_mul(f32_from(255), f32_from(Len(a)))))

\* engine.rs:595-597
u8_to_float(u8s) ==
    [i \in 1..Len(u8s) |->
        f32_sub(f32_mul(f32_div(f32_from(u8s[i]), f32_from(255)), f32_from(2)), f32_from(1))]

\* engine.rs:600-601: fold(0f32, mag_op) over the values lo..hi.
RECURSIVE fold_mag(_, _, _, _)
fold_mag(u, lo, hi, initial) ==
    IF lo > hi THEN initial
    ELSE IF lo = hi THEN f32_add(initial, f32_mul(u[lo], u[lo]))
    ELSE LET left == fold_mag(u, lo, (lo + hi) \div 2, initial)
         IN  IF left.m = 0 THEN fold_mag(u, ((lo + hi) \div 2) + 1, hi, F32Zero)
             ELSE fold_mag(u, ((lo + hi) \div 2) + 1, hi, left)

\* engine.rs:605: zip and fold(0f32, |initial, (a, b)| initial + a*b) over
\* the pairs lo..hi.
RECURSIVE fold_dot(_, _, _, _, _)
fold_dot(u, v, lo, hi, initial) ==
    IF lo > hi THEN initial
    ELSE IF lo = hi THEN f32_add(initial, f32_mul(u[lo], v[lo]))
    ELSE LET left == fold_dot(u, v, lo, (lo + hi) \div 2, initial)
         IN  IF left.m = 0 THEN fold_dot(u, v, ((lo + hi) \div 2) + 1, hi, F32Zero)
             ELSE fold_dot(u, v, ((lo + hi) \div 2) + 1, hi, left)

\* The f32 literal 1e-6.
Millionth == f32_div(f32_from(1), f32_from(1000000))

\* engine.rs:592-608
cosine_distance(a, b) ==
    LET u == u8_to_float(a)
        v == u8_to_float(b)
        magnitude == f32_mul(f32_sqrt(fold_mag(u, 1, Len(u), F32Zero)),
                             f32_sqrt(fold_mag(v, 1, Len(v), F32Zero)))
    IN  IF f32_lt(magnitude, Millionth) THEN Ok(F32Zero)
        ELSE LET dot == fold_dot(u, v, 1, ZipLen(u, v), F32Zero)
                 cosine_similarity == f32_div(dot, magnitude)
             IN  Ok(f32_sub(f32_div(f32_from(1), f32_max(cosine_similarity, Millionth)),
                            f32_from(1)))

\* A call of each distance function on the two vectors.
HammingDistance ==
    /\ ~distances.hamming.called
    /\ distances' = [distances EXCEPT !.hamming = hamming_distance(hash_a, hash_b)]
    /\ UNCHANGED <<layout, nruns, disc, file_q, worker, image_q, drain, store, success_q,
                   failure_q, faults, hist, cached_index_size, session, hash_a, hash_b,
                   overflow_checks, folders, similarity, recent, locking>>

ByteDistance ==
    /\ ~distances.byte.called
    /\ distances' = [distances EXCEPT !.byte = byte_distance(hash_a, hash_b)]
    /\ UNCHANGED <<layout, nruns, disc, file_q, worker, image_q, drain, store, success_q,
                   failure_q, faults, hist, cached_index_size, session, hash_a, hash_b,
                   overflow_checks, folders, similarity, recent, locking>>

CosineDistance ==
    /\ ~distances.cosine.called
    /\ distances' = [distances EXCEPT !.cosine = cosine_distance(hash_a, hash_b)]
    /\ UNCHANGED <<layout, nruns, disc, file_q, worker, image_q, drain, store, success_q,
                   failure_q, faults, hist, cached_index_size, session, hash_a, hash_b,
                   overflow_checks, folders, similarity, recent, locking>>

\* Any two vectors, in a build with and without overflow checks.
InitDistance ==
    /\ InitPipeline({<<>>})
    /\ InitSession
    /\ hash_a \in HashVectors
    /\ hash_b \in HashVectors
    /\ overflow_checks \in BOOLEAN
    /\ distances = NoDistances
    /\ InitFolders({{}})
    /\ InitSimilarity({<<>>})
    /\ InitRecent
    /\ InitLocking

NextDistance == HammingDistance \/ ByteDistance \/ CosineDistance

SpecDistance == InitDistance /\ [][NextDistance]_vars

\* --------------------------------------------- engine.rs: tracked folders
\* The globs a user tracks.
GlobNames == <<"/a/**/*", "/b/**/*", "/c/**/*", "/d/**/*", "/e/**/*">>

Globs == {GlobNames[i] : i \in 1..MaxGlobs}

\* The orders in which a SELECT without ORDER BY may yield the rows.
RowOrders(table) ==
    {order \in [1..Cardinality(table) -> table] :
        \A g \in table : \E i \in 1..Cardinality(table) : order[i] = g}

\* The cache is left as it is.
keep_cache(cache) == cache

\* engine.rs:434, 442: self.watched_directories_cache = None
invalidate_cache(cache) == None

\* engine.rs:446-467: the cache after get_tracked_folders, when the SELECT
\* would yield all_globs.
get_tracked_folders(cache, all_globs) ==
    IF ~cache.some THEN Some(all_globs) ELSE cache

\* engine.rs:430-436.  The table's primary key is the glob: the INSERT of a
\* glob that is in the table fails and its unwrap panics.
AddTrackedFolder(folder_glob) ==
    /\ ~folders_hist.panicked
    /\ IF folder_glob \in watched_directories
       THEN /\ folders_hist' = [folders_hist EXCEPT !.panicked = TRUE]
            /\ UNCHANGED <<watched_directories, watched_directories_cache>>
       ELSE /\ watched_directories' = watched_directories \cup {folder_glob}
            /\ \E all_globs \in RowOrders(watched_directories') :
                   watched_directories_cache' =
                       get_tracked_folders(invalidate_cache(watched_directories_cache),
                                           all_globs)
            /\ folders_hist' = [folders_hist EXCEPT
                                   !.tracked = @ \cup {folder_glob},
                                   !.added = TRUE,
                                   !.returned = NotCalled]
    /\ UNCHANGED <<layout, nruns, disc, file_q, worker, image_q, drain, store, success_q,
                   failure_q, faults, hist, cached_index_size, session, hashing, similarity, recent, locking>>

\* engine.rs:438-444.  The DELETE of a glob that is not in the table deletes
\* no row.
RemoveTrackedFolder(folder_glob) ==
    /\ ~folders_hist.panicked
    /\ watched_directories' = watched_directories \ {folder_glob}
    /\ \E all_globs \in RowOrders(watched_directories') :
           watched_directories_cache' =
               get_tracked_folders(invalidate_cache(watched_directories_cache), all_globs)
    /\ folders_hist' = [folders_hist EXCEPT
                           !.tracked = @ \ {folder_glob},
                           !.removed = @ \/ folder_glob \in watched_directories,
                           !.returned = NotCalled]
    /\ UNCHANGED <<layout, nruns, disc, file_q, worker, image_q, drain, store, success_q,
                   failure_q, faults, hist, cached_index_size, session, hashing, similarity, recent, locking>>

\* engine.rs:446-467: a call from the user interface.
GetTrackedFolders ==
    /\ ~folders_hist.panicked
    /\ \E all_globs \in RowOrders(watched_directories) :
           watched_directories_cache' =
               get_tracked_folders(watched_directories_cache, all_globs)
    /\ folders_hist' = [folders_hist EXCEPT !.returned = Ok(watched_directories_cache'.v)]
    /\ UNCHANGED <<layout, nruns, disc, file_q, worker, image_q, drain, store, success_q,
                   failure_q, faults, hist, cached_index_size, session, hashing, similarity,
                   recent, locking, watched_directories>>

\* Engine::open of a file with any tracked globs.
InitTrackedFolders ==
    /\ InitPipeline({<<>>})
    /\ InitSession
    /\ InitHashing
    /\ InitSimilarity({<<>>})
    /\ InitFolders(SUBSET Globs)
    /\ InitRecent
    /\ InitLocking

NextTrackedFolders ==
    \/ \E folder_glob \in Globs : AddTrackedFolder(folder_glob)
    \/ \E folder_glob \in Globs : RemoveTrackedFolder(folder_glob)
    \/ GetTrackedFolders

SpecTrackedFolders == InitTrackedFolders /\ [][NextTrackedFolders]_vars

\* ----------------------------------------- engine.rs: similarity queries
\* The hashes a row of semantic_hashes may hold, two bytes of each.
HashChoices == {<<255, 0>>, <<255, 128>>, <<0, 255>>}

F32Half == f32_div(f32_from(1), f32_from(2))

\* ui/settings.rs:16: the slider over 0.0..=1.0, two values of it.
SliderValues == {F32Zero, F32Half}

\* Every row passes.
any_distance(dist, max_distance) == TRUE

\* engine.rs:404: WHERE dist < ?
within_max_distance(dist, max_distance) == f32_lt(dist, max_distance)

\* engine.rs:401-403, 410-414: the rows of semantic_hashes that have an
\* image, with dist, as the scan of semantic_hashes yields them: its key
\* is image_id, the rows come by ascending image_id.
scanned_rows(visual_hash) ==
    LET Joined(i) == i \in semantic_hashes
        ids == SelectSeq([i \in 1..Len(images) |-> i], Joined)
    IN  [n \in 1..Len(ids) |->
            [id |-> ids[n], path |-> images[ids[n]].path,
             visual_hash |-> Some(semantic_hash_blob[ids[n]]),
             distance_from_query |->
                 Some(cosine_distance(visual_hash, semantic_hash_blob[ids[n]]).v)]]

\* The row goes in front of the first row whose dist is not less.
RECURSIVE insert_before_ties(_, _)
insert_before_ties(sorted, row) ==
    IF sorted = <<>> THEN <<row>>
    ELSE IF f32_lt(Head(sorted).distance_from_query.v, row.distance_from_query.v)
    THEN <<Head(sorted)>> \o insert_before_ties(Tail(sorted), row)
    ELSE <<row>> \o sorted

\* The rows by ascending dist, rows of equal dist in the reverse order.
RECURSIVE order_by_dist_ties_reversed(_)
order_by_dist_ties_reversed(rows) ==
    IF rows = <<>> THEN <<>>
    ELSE insert_before_ties(order_by_dist_ties_reversed(SubSeq(rows, 1, Len(rows) - 1)),
                            rows[Len(rows)])

\* The rows as they were scanned.
scan_order(rows) == rows

\* The row goes behind the rows whose dist is not greater.
RECURSIVE insert_by_dist(_, _)
insert_by_dist(sorted, row) ==
    IF sorted = <<>> THEN <<row>>
    ELSE IF f32_lt(row.distance_from_query.v, Head(sorted).distance_from_query.v)
    THEN <<row>> \o sorted
    ELSE <<Head(sorted)>> \o insert_by_dist(Tail(sorted), row)

\* engine.rs:405: ORDER BY dist ASC.  The statement names no second key;
\* SQLite sorts the rows as they are scanned and rows of equal dist leave
\* the sorter in the order in which they entered it.
RECURSIVE order_by_dist(_)
order_by_dist(rows) ==
    IF rows = <<>> THEN <<>>
    ELSE insert_by_dist(order_by_dist(SubSeq(rows, 1, Len(rows) - 1)), rows[Len(rows)])

\* engine.rs:406: LIMIT 100
limit(rows) == IF Len(rows) > QueryLimit THEN SubSeq(rows, 1, QueryLimit) ELSE rows

\* engine.rs:390-422: the fields the call writes.  An image without a
\* visual hash returns before any field is written.
query_by_image_hash_from_image(indexed_image) ==
    IF ~indexed_image.visual_hash.some
    THEN [cached_search_results |-> cached_search_results, ranking |-> ranking]
    ELSE LET Kept(row) ==
                 within_max_distance(row.distance_from_query.v, max_distance_from_query)
             rows == SelectSeq(scanned_rows(indexed_image.visual_hash.v), Kept)
         IN  [cached_search_results |-> Some(limit(order_by_dist(rows))),
              ranking |-> RankedBy("query_by_image_hash_from_image",
                                   indexed_image.visual_hash)]

\* engine.rs:346, 411: a result carries the hash of its row.
result_image(res) == [visual_hash |-> Some(semantic_hash_blob[res.id])]

\* ui/search.rs:78: the search for the images similar to a displayed result.
QueryByImageHashFromImage(k) ==
    /\ query_result # Panicked
    /\ cached_search_results.some
    /\ k \in 1..Len(cached_search_results.v)
    /\ \E q \in {query_by_image_hash_from_image(result_image(cached_search_results.v[k]))} :
           /\ cached_search_results' = q.cached_search_results
           /\ ranking' = q.ranking
    /\ UNCHANGED <<layout, nruns, disc, file_q, worker, image_q, drain, store, success_q,
                   failure_q, faults, hist, cached_index_size, user_input, parsed_query,
                   query_result, cached_image_search, loads, where_clause, apart>>

\* engine.rs:379-388: the search for the images similar to a file the user
\* picks (main.rs:113, ui/search.rs:24).  A file that does not load panics
\* at the unwrap, after the results were cleared; the interface's thread
\* ends as it does when query panics.
QueryByImageHashFromFile(i) ==
    /\ query_result # Panicked
    /\ i \in DOMAIN layout
    /\ LET indexed_image == from_file_path(layout[i])
       IN  IF indexed_image.result # "ok"
           THEN /\ cached_search_results' = None
                /\ query_result' = Panicked
                /\ UNCHANGED ranking
           ELSE \E q \in {query_by_image_hash_from_image(
                                [visual_hash |-> Some(mlhash(indexed_image.img.path))])} :
                    /\ cached_search_results' = q.cached_search_results
                    /\ ranking' = q.ranking
                    /\ UNCHANGED query_result
    /\ UNCHANGED <<layout, nruns, disc, file_q, worker, image_q, drain, store, success_q,
                   failure_q, faults, hist, cached_index_size, user_input, parsed_query,
                   cached_image_search, loads, where_clause, apart>>

\* ui/settings.rs:16: the slider is moved.
SetMaxDistance(d) ==
    /\ query_result # Panicked
    /\ d # max_distance_from_query
    /\ max_distance_from_query' = d
    /\ UNCHANGED <<layout, nruns, disc, file_q, worker, image_q, drain, store, success_q,
                   failure_q, faults, hist, cached_index_size, session, hashing, folders,
                   recent, locking, semantic_hash_blob>>

\* The text given to query where similarity is specified: a similar: term
\* with a word.
SimilarTexts == { SimilarPrefix \o Chars("/w/b.jpg") \o <<Space, "b">> }

\* An Engine opened on the database that two runs over a.PNG and b.jpg have
\* left (b.jpg was indexed twice), the rows with any of the hashes.
InitSimilar ==
    /\ layout = <<ImgUpper, ImgPlain, ImgCorrupt>>
    /\ InitThreads
    /\ images = << [id |-> 1, filename |-> ImgUpper.filename, path |-> ImgUpper.path],
                   [id |-> 2, filename |-> ImgPlain.filename, path |-> ImgPlain.path],
                   [id |-> 3, filename |-> ImgPlain.filename, path |-> ImgPlain.path] >>
    /\ tags = {[image_id |-> 1, name |-> t] : t \in ImgUpper.tags}
    /\ phashes = {1, 2, 3}
    /\ semantic_hashes = {1, 2, 3}
    /\ InitSession
    /\ InitHashing
    /\ InitFolders({{}})
    /\ InitSimilarity([1..3 -> HashChoices])
    /\ InitRecent
    /\ InitLocking

NextSimilar ==
    \/ \E k \in 1..3 : QueryByImageHashFromImage(k)
    \/ \E i \in 1..3 : QueryByImageHashFromFile(i)
    \/ \E d \in SliderValues : SetMaxDistance(d)
    \/ \E text \in SimilarTexts : Query(text)

SpecSimilar == InitSimilar /\ [][NextSimilar]_vars

\* --------------------------------------------- engine.rs: get_last_indexed
\* engine.rs:189
LastIndexedCap == 10

\* The files of a watched folder with more images than the list keeps.
ManyNames ==
    <<"f01.jpg", "f02.jpg", "f03.jpg", "f04.jpg", "f05.jpg", "f06.jpg", "f07.jpg",
      "f08.jpg", "f09.jpg", "f10.jpg", "f11.jpg", "f12.jpg", "f13.jpg">>

ManyPaths ==
    <<"/w/f01.jpg", "/w/f02.jpg", "/w/f03.jpg", "/w/f04.jpg", "/w/f05.jpg",
      "/w/f06.jpg", "/w/f07.jpg", "/w/f08.jpg", "/w/f09.jpg", "/w/f10.jpg",
      "/w/f11.jpg", "/w/f12.jpg", "/w/f13.jpg">>

ManyFiles ==
    [k \in 1..MaxCompletions |->
        [path |-> ManyPaths[k], filename |-> ManyNames[k], extension |-> "jpg",
         is_file |-> TRUE, content |-> "image", tags |-> {}, inner |-> <<>>]]

\* The list cut at its end: the newest entries go.
cap_keeps_oldest(list) ==
    IF Len(list) > LastIndexedCap THEN SubSeq(list, 1, LastIndexedCap) ELSE list

\* engine.rs:189-191: remove(0) while the list is longer than 10.
RECURSIVE cap_last_indexed(_)
cap_last_indexed(list) ==
    IF Len(list) > LastIndexedCap THEN cap_last_indexed(Tail(list)) ELSE list

\* engine.rs:182-186: what the loop of recv_timeout receives: every message
\* in the channel of the latest run; nothing before the first run.
files_completed == IF nruns > 0 THEN success_q[nruns] ELSE <<>>

\* engine.rs:181-194: get_last_indexed, called by the user interface in
\* every frame (ui/search_panel.rs:117).
GetLastIndexed ==
    /\ last_indexed' = cap_last_indexed(last_indexed \o files_completed)
    /\ success_q' = [r \in Runs |-> IF r = nruns THEN <<>> ELSE success_q[r]]
    /\ last_indexed_hist' =
           [received |-> last_indexed_hist.received \o files_completed,
            calls |-> last_indexed_hist.calls + (IF files_completed = <<>> THEN 0 ELSE 1)]
    /\ UNCHANGED <<layout, nruns, disc, file_q, worker, image_q, drain, store, failure_q,
                   faults, hist, cached_index_size, session, hashing, folders, similarity,
                   locking>>

\* A first run over a watched folder of MaxCompletions images, at the moment
\* discovery and the workers have ended and the drain thread has not yet
\* received: the channels are unbounded, so every Record is queued.
InitLastIndexed ==
    /\ layout = ManyFiles
    /\ nruns = 1
    /\ disc = [r \in Runs |-> IF r = 1 THEN [pc |-> "done", next |-> Len(ManyFiles) + 1]
                                       ELSE [pc |-> "none", next |-> 1]]
    /\ file_q = [r \in Runs |-> <<>>]
    /\ worker = [r \in Runs |-> [w \in Workers |->
                     [pc |-> IF r = 1 THEN "done" ELSE "none", item |-> 0]]]
    /\ image_q = [r \in Runs |->
                     IF r = 1 THEN [k \in 1..Len(ManyFiles) |-> from_file_path(ManyFiles[k]).img]
                     ELSE <<>>]
    /\ drain = [r \in Runs |-> [pc |-> IF r = 1 THEN "recv" ELSE "none", img |-> NoImage]]
    /\ success_q = [r \in Runs |-> <<>>]
    /\ failure_q = [r \in Runs |-> <<>>]
    /\ faults = 0
    /\ hist = [r \in Runs |->
                  IF r = 1 THEN [NoHist EXCEPT !.paths_sent = Len(ManyFiles),
                                               !.paths_recv = Len(ManyFiles),
                                               !.imgs_sent = Len(ManyFiles)]
                  ELSE NoHist]
    /\ images = <<>>
    /\ tags = {}
    /\ phashes = {}
    /\ semantic_hashes = {}
    /\ InitSession
    /\ InitApart

NextLastIndexed == DrainStep \/ GetLastIndexed

SpecLastIndexed == InitLastIndexed /\ [][NextLastIndexed]_vars

\* ------------------------------------------ engine.rs: the connection mutex
\* parking_lot::FairMutex::lock by thread t: the free mutex is taken, a held
\* one parks the caller behind the threads parked before it.
lock(m, t) ==
    IF m.holder = NoThread THEN [m EXCEPT !.holder = t]
    ELSE [m EXCEPT !.waiting = Append(@, t)]

\* The guard of a FairMutex dropped: the mutex goes to the thread parked
\* first, if any (fair unlocking).
unlock(m) ==
    IF m.waiting = <<>> THEN [m EXCEPT !.holder = NoThread]
    ELSE [holder |-> Head(m.waiting), waiting |-> Tail(m.waiting)]

\* A guard that outlives the block: the thread keeps the mutex.
guard_kept(m) == m

\* engine.rs:225-229, 234-237: the guard of the drain thread is a local of
\* the block of one statement and is dropped where the block ends, also
\* when the statement panics.
drop_guard(m) == unlock(m)

\* The reader has waited through one more operation of a drain thread.
waited_through_one ==
    IF reader.pc = "waiting" /\ conn_lock.holder # UiThread /\ reader.bypassed <= MaxRuns
    THEN [reader EXCEPT !.bypassed = @ + 1]
    ELSE reader

\* engine.rs:226, 235: w_conn.lock() in the drain thread of run r.
DrainLock(r) ==
    /\ drain[r].pc \in {"check", "insert"}
    /\ conn_lock.holder # r
    /\ \A k \in 1..Len(conn_lock.waiting) : conn_lock.waiting[k] # r
    /\ conn_lock' = lock(conn_lock, r)
    /\ UNCHANGED <<layout, nruns, disc, file_q, worker, image_q, drain, store, success_q,
                   failure_q, faults, hist, cached_index_size, session, unlocked, reader>>

\* engine.rs:225-229: the existence check by the holder of the mutex.
LockedDrainCheck(r) ==
    /\ conn_lock.holder = r
    /\ DrainCheckUnderLock(r)
    /\ conn_lock' = drop_guard(conn_lock)
    /\ reader' = waited_through_one

\* engine.rs:234-243: the insert by the holder of the mutex; the message is
\* sent after the guard is dropped, on a channel that never blocks.
LockedDrainInsert(r) ==
    /\ conn_lock.holder = r
    /\ DrainInsertUnderLock(r)
    /\ conn_lock' = drop_guard(conn_lock)
    /\ reader' = waited_through_one

\* The text the user interface queries for while the runs store.
LockedQueryTexts == { <<"b">> }

\* engine.rs:343: self.connection.lock() in query.
QueryLock ==
    /\ reader.pc = "idle"
    /\ query_result # Panicked
    /\ conn_lock' = lock(conn_lock, UiThread)
    /\ reader' = [pc |-> "waiting", bypassed |-> 0]
    /\ UNCHANGED <<layout, nruns, disc, file_q, worker, image_q, drain, store, success_q,
                   failure_q, faults, hist, cached_index_size, session, unlocked>>

\* engine.rs:343-370: the statement of query by the holder of the mutex;
\* the guard is dropped at the end of the block.
LockedQuery ==
    /\ reader.pc = "waiting"
    /\ conn_lock.holder = UiThread
    /\ \E text \in LockedQueryTexts : QueryCall(text)
    /\ conn_lock' = unlock(conn_lock)
    /\ reader' = [reader EXCEPT !.pc = "idle"]

\* Every run the Engine may start has been started over a.PNG and b.jpg;
\* discovery and the workers have ended and no drain thread has received
\* yet: the channels are unbounded, so every Record is queued.
InitLocked ==
    /\ layout = <<ImgUpper, ImgPlain>>
    /\ nruns = MaxRuns
    /\ disc = [r \in Runs |-> [pc |-> "done", next |-> Len(layout) + 1]]
    /\ file_q = [r \in Runs |-> <<>>]
    /\ worker = [r \in Runs |-> [w \in Workers |-> [pc |-> "done", item |-> 0]]]
    /\ image_q = [r \in Runs |-> <<from_file_path(ImgUpper).img, from_file_path(ImgPlain).img>>]
    /\ drain = [r \in Runs |-> [pc |-> "recv", img |-> NoImage]]
    /\ success_q = [r \in Runs |-> <<>>]
    /\ failure_q = [r \in Runs |-> <<>>]
    /\ faults = 0
    /\ hist = [r \in Runs |-> [NoHist EXCEPT !.paths_sent = 2, !.paths_recv = 2,
                                             !.imgs_sent = 2]]
    /\ images = <<>>
    /\ tags = {}
    /\ phashes = {}
    /\ semantic_hashes = {}
    /\ InitSession
    /\ InitApart

NextLocked ==
    \/ \E r \in Runs : DrainRecv(r)
    \/ \E r \in Runs : DrainExit(r)
    \/ \E r \in Runs : DrainLock(r)
    \/ \E r \in Runs : LockedDrainCheck(r)
    \/ \E r \in Runs : LockedDrainInsert(r)
    \/ QueryLock
    \/ LockedQuery

\* The drain threads and the thread of the user interface are operating
\* system threads: one that can take a step eventually takes it.
SpecLocked ==
    /\ InitLocked
    /\ [][NextLocked]_vars
    /\ \A r \in Runs :
          WF_vars(DrainRecv(r) \/ DrainExit(r) \/ DrainLock(r) \/ LockedDrainCheck(r)
                      \/ LockedDrainInsert(r))
    /\ WF_vars(LockedQuery)

\* The token is prefix:remainder with the given prefix, in any case.
HasPrefix(token, prefix) ==
    /\ split_once(token).some
    /\ to_lowercase(split_once(token).v[1]) = prefix

\* The text of a token after its first ':'.
Remainder(token) == split_once(token).v[2]

SimilarWord == <<"s", "i", "m", "i", "l", "a", "r">>

FilenameWord == <<"f", "i", "l", "e", "n", "a", "m", "e">>

TagWord == <<"t", "a", "g">>

ExifWord == <<"e", "x", "i", "f">>

\* The latest call of query tokenized its text and built a WHERE from it.
BuiltWhere ==
    /\ parsed_query.called /\ parsed_query.ok
    /\ where_clause.called

\* The tokens of the latest query that are no similar: term, in order.
NonSimilarTokens ==
    LET IsOther(token) == ~HasPrefix(token, SimilarWord)
    IN  SelectSeq(parsed_query.v, IsOther)

\* C21: the predicate built from a token list is the conjunction of one
\* clause per token that is no similar: term, in token order; the clause of
\* a bare token is (tag value OR filename OR path contains the token), the
\* clause of a filename: token is (filename contains the remainder), and a
\* similar: token gives no clause.
C21_OneClausePerToken ==
    BuiltWhere =>
        /\ Len(where_clause.v) = Len(NonSimilarTokens)
        /\ \A k \in 1..Len(NonSimilarTokens) :
              LET token == NonSimilarTokens[k]
              IN  /\ ~split_once(token).some =>
                        where_clause.v[k] = [kind |-> "any", text |-> token]
                  /\ HasPrefix(token, FilenameWord) =>
                        where_clause.v[k] = [kind |-> "filename", text |-> Remainder(token)]

\* The tag predicate of a remainder: name AND value when it holds a ':',
\* else name OR value.
TagPredicate(remainder) ==
    IF split_once(remainder).some
    THEN [kind |-> "exif_pair", tag |-> split_once(remainder).v[1],
          target |-> split_once(remainder).v[2]]
    ELSE [kind |-> "exif_any", text |-> remainder]

\* C22: every tag: token and every exif: token of the query gives the tag
\* predicate of its remainder: split at the first ':' into name AND value,
\* or, without a ':', name OR value.
C22_TagAndExifPrefix ==
    BuiltWhere =>
        \A k \in 1..Len(parsed_query.v) :
            LET token == parsed_query.v[k]
            IN  (HasPrefix(token, TagWord) \/ HasPrefix(token, ExifWord)) =>
                    \E n \in 1..Len(where_clause.v) :
                        where_clause.v[n] = TagPredicate(Remainder(token))

\* The part of C22 that the code has: the exif: prefix.
ExifPrefixBuildsTagPredicate ==
    BuiltWhere =>
        \A k \in 1..Len(parsed_query.v) :
            HasPrefix(parsed_query.v[k], ExifWord) =>
                \E n \in 1..Len(where_clause.v) :
                    where_clause.v[n] = TagPredicate(Remainder(parsed_query.v[k]))

\* The part of C21 that the code has: bare, filename: and exif: tokens give
\* one clause each, in order, and every other prefixed token gives none.
ClausePerKnownToken ==
    BuiltWhere =>
        LET Known(token) ==
                \/ ~split_once(token).some
                \/ HasPrefix(token, FilenameWord)
                \/ HasPrefix(token, ExifWord)
            known == SelectSeq(parsed_query.v, Known)
        IN  /\ Len(where_clause.v) = Len(known)
            /\ \A k \in 1..Len(known) :
                  where_clause.v[k] =
                      IF ~split_once(known[k]).some THEN [kind |-> "any", text |-> known[k]]
                      ELSE IF HasPrefix(known[k], FilenameWord)
                      THEN [kind |-> "filename", text |-> Remainder(known[k])]
                      ELSE TagPredicate(Remainder(known[k]))

\* The two vectors have one length, which is not zero.
EqualLength == Len(hash_a) = Len(hash_b) /\ Len(hash_a) > 0

\* The bit positions in which the two vectors differ.
DifferingBits ==
    {<<i, k>> \in (1..Len(hash_a)) \X (0..7) : Bit(hash_a[i], k) # Bit(hash_b[i], k)}

F32One == f32_from(1)

\* 0 <= x <= 1
InUnitRange(x) == ~f32_lt(x, F32Zero) /\ ~f32_lt(F32One, x)

\* C26: for non-empty byte vectors a and b of equal length,
\* hamming_distance(a, b) is the number of bit positions in which they
\* differ divided by 8 * len, lies in [0, 1] and is 0 exactly when a = b,
\* for every length the tables hold (32-byte phashes, 128-byte embeddings).
C26_HammingExact ==
    (distances.hamming.called /\ EqualLength) =>
        /\ distances.hamming =
               Ok(f32_div(f32_from(Cardinality(DifferingBits)), f32_from(8 * Len(hash_a))))
        /\ InUnitRange(distances.hamming.v)
        /\ (distances.hamming.v = F32Zero <=> hash_a = hash_b)

\* What hamming_distance does give: C26 for vectors that differ in at most
\* 255 bit positions.
HammingExactBelow256 ==
    (distances.hamming.called /\ EqualLength /\ Cardinality(DifferingBits) <= 255) =>
        /\ distances.hamming =
               Ok(f32_div(f32_from(Cardinality(DifferingBits)), f32_from(8 * Len(hash_a))))
        /\ InUnitRange(distances.hamming.v)
        /\ (distances.hamming.v = F32Zero <=> hash_a = hash_b)

\* The call reported an error to its caller.
Rejected(result) == result.called /\ ~result.ok /\ result # Panic

\* C27: hamming_distance, byte_distance and cosine_distance called with
\* vectors of different lengths report an error, and compute no value from
\* the common prefix.
C27_LengthMismatchRejected ==
    Len(hash_a) # Len(hash_b) =>
        /\ distances.hamming.called => Rejected(distances.hamming)
        /\ distances.byte.called => Rejected(distances.byte)
        /\ distances.cosine.called => Rejected(distances.cosine)

\* The sum of |a[i] - b[i]| over the bytes lo..hi.
RECURSIVE AbsoluteDifference(_, _)
AbsoluteDifference(lo, hi) ==
    IF lo > hi THEN 0
    ELSE IF lo = hi
    THEN (IF hash_a[lo] > hash_b[lo] THEN hash_a[lo] - hash_b[lo] ELSE hash_b[lo] - hash_a[lo])
    ELSE AbsoluteDifference(lo, (lo + hi) \div 2) + AbsoluteDifference(((lo + hi) \div 2) + 1, hi)

\* C28: for byte vectors a and b of equal non-zero length, byte_distance and
\* hamming_distance give d(a, b) = d(b, a); byte_distance(a, b) is the sum of
\* |a[i] - b[i]| divided by 255 * len, lies in [0, 1] and is 0 exactly when
\* a = b.
C28_Symmetric ==
    EqualLength =>
        /\ distances.hamming.called =>
               distances.hamming = hamming_distance(hash_b, hash_a)
        /\ distances.byte.called =>
               /\ distances.byte = byte_distance(hash_b, hash_a)
               /\ distances.byte =
                      Ok(f32_div(f32_from(AbsoluteDifference(1, Len(hash_a))),
                                 f32_from(255 * Len(hash_a))))
               /\ InUnitRange(distances.byte.v)
               /\ (distances.byte.v = F32Zero <=> hash_a = hash_b)

\* Both functions have returned a distance that is not 0 for two different
\* vectors of one length.
C28_Witness ==
    /\ EqualLength
    /\ hash_a # hash_b
    /\ distances.hamming.called /\ distances.hamming.ok
    /\ distances.hamming.v # F32Zero
    /\ distances.byte.called /\ distances.byte.ok
    /\ distances.byte.v # F32Zero

\* The product of the magnitudes of the two vectors is below 1e-6: no
\* component of a converted vector is nearer to 0 than 1/255, so this is
\* the case of an empty vector.
MagnitudeProductBelowMillionth == hash_a = <<>> \/ hash_b = <<>>

\* C29: cosine_distance(a, a) is below 1e-6, cosine_distance of the opposite
\* vectors [255, 0] and [0, 255] is above 2.0, the result is never negative
\* (or NaN), and it is 0 when the product of the magnitudes is below 1e-6.
C29_CosineRange ==
    distances.cosine.called =>
        /\ distances.cosine.ok
        /\ hash_a = hash_b => f32_lt(distances.cosine.v, Millionth)
        /\ (hash_a = <<255, 0>> /\ hash_b = <<0, 255>>) =>
               f32_lt(f32_from(2), distances.cosine.v)
        /\ ~f32_lt(distances.cosine.v, F32Zero)
        /\ distances.cosine.v # F32NaN
        /\ MagnitudeProductBelowMillionth => distances.cosine.v = F32Zero

\* What cosine_distance does give: the two values of C29, and a result that
\* is negative only for vectors whose similarity rounds to more than 1.
CosineSelfAndOpposite ==
    distances.cosine.called =>
        /\ distances.cosine.ok
        /\ hash_a = hash_b => f32_lt(distances.cosine.v, Millionth)
        /\ (hash_a = <<255, 0>> /\ hash_b = <<0, 255>>) =>
               f32_lt(f32_from(2), distances.cosine.v)
        /\ f32_lt(distances.cosine.v, F32Zero) =>
               f32_lt(f32_neg(f32_from(1)), distances.cosine.v)
        /\ distances.cosine.v # F32NaN
        /\ MagnitudeProductBelowMillionth => distances.cosine.v = F32Zero

\* The globs of a list, and whether it names none twice.
ListedGlobs(list) == {list[i] : i \in 1..Len(list)}

NoGlobTwice(list) == Cardinality(ListedGlobs(list)) = Len(list)

\* C30: whenever the in-memory list of tracked folders is populated it holds
\* exactly the globs of the table watched_directories, each once, and these
\* are the globs that were added and not removed since; get_tracked_folders
\* returns that list.
C30_CacheCoherent ==
    /\ folders_hist.tracked = watched_directories
    /\ watched_directories_cache.some =>
           /\ ListedGlobs(watched_directories_cache.v) = watched_directories
           /\ NoGlobTwice(watched_directories_cache.v)
    /\ folders_hist.returned.called =>
           /\ watched_directories_cache.some
           /\ folders_hist.returned.v = watched_directories_cache.v
           /\ ListedGlobs(folders_hist.returned.v) = folders_hist.tracked

\* get_tracked_folders has returned two globs after a glob was added and a
\* tracked glob was removed.
C30_Witness ==
    /\ folders_hist.returned.called
    /\ folders_hist.added
    /\ folders_hist.removed
    /\ Cardinality(folders_hist.tracked) = 2
    /\ ~folders_hist.panicked

\* The cached results were ranked by the distance to a reference.
RankedResults ==
    cached_search_results.some /\ ranking.called /\ ranking.reference.some

\* The distance of the stored hash of an image to the reference.
DistanceToReference(id) ==
    cosine_distance(ranking.reference.v, semantic_hash_blob[id]).v

\* Every result carries the distance of its row to the reference.
ResultsCarryDistance ==
    \A n \in 1..Len(cached_search_results.v) :
        cached_search_results.v[n].distance_from_query =
            Some(DistanceToReference(cached_search_results.v[n].id))

\* C23: in every result set ranked by the distance to a reference, each
\* result carries its distance and no result has a smaller distance than
\* the one before it.
C23_AscendingDistance ==
    RankedResults =>
        /\ ResultsCarryDistance
        /\ \A n \in 1..(Len(cached_search_results.v) - 1) :
               ~f32_lt(cached_search_results.v[n + 1].distance_from_query.v,
                       cached_search_results.v[n].distance_from_query.v)

\* A ranked result set whose first result was inserted after its second and
\* is nearer to the reference.
C23_Witness ==
    /\ RankedResults
    /\ Len(cached_search_results.v) >= 2
    /\ cached_search_results.v[1].id > cached_search_results.v[2].id
    /\ f32_lt(cached_search_results.v[1].distance_from_query.v,
              cached_search_results.v[2].distance_from_query.v)

\* query with a reference that has a visual hash leaves no result set.
QueryWithReferenceHasNoResults ==
    (ranking.called /\ ranking.by = "query" /\ ranking.reference.some) =>
        ~cached_search_results.some

\* The images whose distance to the reference is below the threshold of the
\* call.
WithinThreshold ==
    {i \in semantic_hashes : f32_lt(DistanceToReference(i), ranking.max_distance)}

C25_MaxDistance ==
    RankedResults =>
        \A n \in 1..Len(cached_search_results.v) :
            ~f32_lt(ranking.max_distance,
                    DistanceToReference(cached_search_results.v[n].id))

\* A similarity query with the threshold 0.5 has returned an image and left
\* out an image that is farther away.
C25_Witness ==
    /\ RankedResults
    /\ ranking.max_distance = F32Half
    /\ cached_search_results.v # <<>>
    /\ \E i \in semantic_hashes : f32_lt(ranking.max_distance, DistanceToReference(i))

\* C31: add_tracked_folder with a glob that is already tracked returns to
\* its caller (which learns of the rejection), the table still holds the
\* glob once, and the Engine can be called afterwards.
C31_DuplicateRejected ==
    /\ ~folders_hist.panicked
    /\ folders_hist.tracked = watched_directories

\* What the duplicate does leave: the table and the list as they were, in
\* a thread that has panicked.
DuplicateLeavesTable ==
    folders_hist.panicked =>
        /\ folders_hist.tracked = watched_directories
        /\ watched_directories # {}
        /\ watched_directories_cache.some =>
               ListedGlobs(watched_directories_cache.v) = watched_directories

\* C39: every token tokenize_query returns has at least one character, an
\* empty quoted span included.
C39_NoEmptyToken ==
    (parsed_query.called /\ parsed_query.ok) =>
        \A k \in 1..Len(parsed_query.v) : Len(parsed_query.v[k]) >= 1

\* What tokenize_query does give: an empty token only where a quoted span
\* closes that has gathered no character since the token before it.
EmptyTokenOnlyFromQuote ==
    (parsed_query.called /\ parsed_query.ok /\ QuoteMarks(user_input, Len(user_input)) = {}) =>
        \A k \in 1..Len(parsed_query.v) : Len(parsed_query.v[k]) >= 1

\* The last text given to query tokenized to the one token similar:P and
\* the Engine holds a reference image for it: P is loadable.
SimilarOnlyQuery ==
    /\ query_result # NotCalled
    /\ parsed_query.called /\ parsed_query.ok
    /\ parsed_query.v = <<user_input>>
    /\ split_once(user_input).some
    /\ to_lowercase(split_once(user_input).v[1]) = <<"s", "i", "m", "i", "l", "a", "r">>
    /\ cached_image_search.some

\* C37: a query whose only token is similar:P, P loadable, returns Ok.
C37_SimilarOnlyExecutes ==
    SimilarOnlyQuery => query_result = Ok("unit")

\* What the query of the one token similar:P does: its statement has an
\* empty WHERE, the call returns the error of prepare and leaves no result
\* set.
SimilarOnlyFailsToPrepare ==
    SimilarOnlyQuery =>
        /\ query_result = Err("prepare")
        /\ where_clause = Ok(<<>>)
        /\ cached_search_results = None

\* The token is a similar: term (engine.rs:533-538).
is_similar_term(token) ==
    /\ split_once(token).some
    /\ to_lowercase(split_once(token).v[1]) = <<"s", "i", "m", "i", "l", "a", "r">>

\* The last call of query ran the statement for a text that tokenized to a
\* list with no similar: term.
QueryWithoutSimilarTerm ==
    /\ query_result # NotCalled /\ query_result # Panicked
    /\ user_input # <<>>
    /\ parsed_query.called /\ parsed_query.ok
    /\ parsed_query = tokenize_query(user_input)
    /\ \A k \in 1..Len(parsed_query.v) : ~is_similar_term(parsed_query.v[k])

\* C33: a query whose tokens hold no similar: term ranks by no reference,
\* whatever the queries before it left in the Engine.
C33_NoRankingWithoutSimilar ==
    QueryWithoutSimilarTerm =>
        /\ ranking.by = "query"
        /\ ranking.reference = None

\* What the reference of an earlier similar: query does to a later query
\* with no similar: term that builds a clause: the statement takes its
\* distance from the reference, the call returns the error of query_map and
\* no result set is left; with no reference in the Engine the query returns
\* Ok.
CachedReferenceFailsLaterQuery ==
    (QueryWithoutSimilarTerm /\ where_clause # Ok(<<>>)) =>
        IF cached_image_search.some /\ cached_image_search.v.visual_hash
        THEN /\ ranking.reference = Some(mlhash(cached_image_search.v.path))
             /\ query_result = Err("query_map")
             /\ cached_search_results = None
        ELSE /\ ranking.reference = None
             /\ query_result = Ok("unit")

\* The result set in the Engine was left by a call of query that ranked by
\* no reference.
ResultsOfPlainQuery ==
    /\ ranking.called /\ ranking.by = "query" /\ ranking.reference = None
    /\ query_result = Ok("unit")
    /\ cached_search_results.some

\* C32: the records a query with no reference returns have no
\* distance_from_query.
C32_DistanceAbsentWithoutReference ==
    ResultsOfPlainQuery =>
        \A k \in 1..Len(cached_search_results.v) :
            cached_search_results.v[k].distance_from_query = None

\* What those records carry: the constant 0.0 the statement selects as dist,
\* on every one of them.
PlainQueryCarriesZeroDistance ==
    ResultsOfPlainQuery =>
        \A k \in 1..Len(cached_search_results.v) :
            cached_search_results.v[k].distance_from_query = Some(0)

\* The step is a call of query whose text holds one similar: term, first in
\* the list, naming a path that does not load as an image and that is not
\* the path of the reference the Engine holds.
QueryOfUnloadablePath ==
    /\ user_input' # <<>>
    /\ parsed_query' = tokenize_query(user_input')
    /\ parsed_query'.ok
    /\ Len(parsed_query'.v) >= 1
    /\ is_similar_term(parsed_query'.v[1])
    /\ \A k \in 2..Len(parsed_query'.v) : ~is_similar_term(parsed_query'.v[k])
    /\ from_file_path_text(split_once(parsed_query'.v[1]).v[2]).result = "err"
    /\ \/ ~cached_image_search.some
       \/ ~text_eq_ignore_ascii_case(Chars(cached_image_search.v.path),
                                     split_once(parsed_query'.v[1]).v[2])

\* C38: a similar: term whose path does not load and is not the path of the
\* cached reference leaves the Engine with no reference, and the query is
\* evaluated without one and returns no error.
C38_UnloadableDiscardsReference ==
    [][QueryOfUnloadablePath =>
          /\ cached_image_search' = None
          /\ ranking'.reference = None
          /\ query_result' = Ok("unit")]_vars

\* What such a query does: the reference is discarded and the statement
\* takes no distance from a reference; it returns Ok when another token
\* gave the WHERE a clause, and the error of prepare when none did.
UnloadableDiscardsReference ==
    [][QueryOfUnloadablePath =>
          /\ cached_image_search' = None
          /\ ranking'.reference = None
          /\ query_result' = IF where_clause' = Ok(<<>>)
                             THEN Err("prepare") ELSE Ok("unit")]_vars

\* A reference is held and a query of a path that does not load, with a
\* word beside it, has discarded it and returned Ok.
UnloadableWithWordReturnsOk ==
    /\ user_input = SimilarPrefix \o <<"/", "w", "/", "x", Space, "b">>
    /\ query_result = Ok("unit")
    /\ cached_image_search = None
    /\ cached_search_results.some
    /\ Len(cached_search_results.v) = 1

\* The step is worker w of run r ending the body of its loop for an image
\* file that IndexedImage::from_file_path did not turn into a Record: the
\* decode returned Err or the hash panicked.
WorkerFails(r, w) ==
    /\ worker[r][w].pc = "busy"
    /\ worker'[r][w].pc # "busy"
    /\ is_image_file(layout[worker[r][w].item].extension)
    /\ from_file_path(layout[worker[r][w].item]).result # "ok"

\* C35: for every path whose decode or hash fails in a worker, an entry
\* for that path is sent on the failure channel of the run.
C35_WorkerFailureDelivered ==
    [][\A r \in Runs : \A w \in Workers :
          WorkerFails(r, w) =>
              /\ Len(failure_q'[r]) = Len(failure_q[r]) + 1
              /\ failure_q'[r][Len(failure_q'[r])].filename =
                     layout[worker[r][w].item].filename]_vars

\* What a worker does with such a path: nothing reaches either channel of
\* the run; the entries of the failure channel are those of failed inserts.
WorkerFailureOnlyPrinted ==
    [][\A r \in Runs : \A w \in Workers :
          WorkerFails(r, w) =>
              /\ failure_q' = failure_q
              /\ success_q' = success_q
              /\ image_q' = image_q]_vars

FailureEntriesAreInsertFailures ==
    \A r \in Runs : \A k \in 1..Len(failure_q[r]) :
        /\ failure_q[r][k].error \in {"images", "phashes", "semantic_hashes"}
        /\ failure_q[r][k].filename = ImgPlain.filename

\* The rows of the tables that belong to the image row id.
RowsOf(id, image_rows, tag_rows, phash_rows, semantic_rows) ==
    [image |-> image_rows[id],
     tags |-> {t \in tag_rows : t.image_id = id},
     phash |-> id \in phash_rows,
     semantic_hash |-> id \in semantic_rows]

\* C36: no step changes or removes a stored image row, its tag rows or its
\* hash rows, and the number of image rows never decreases.
C36_PersistedRowsFrozen ==
    [][/\ Len(images') >= Len(images)
       /\ \A id \in 1..Len(images) :
             RowsOf(id, images', tags', phashes', semantic_hashes') =
                 RowsOf(id, images, tags, phashes, semantic_hashes)]_vars

\* Both runs have stored a row: the rows of the first run were there while
\* the second run inserted.
C36_Witness ==
    /\ nruns = 2
    /\ hist[1].succ >= 1
    /\ hist[2].succ >= 1
    /\ Len(images) >= 2
    /\ \E i \in 1..Len(images) : \E j \in 1..Len(images) :
           i < j /\ images[i].path = images[j].path

\* The last n entries of a list, all of it when it is shorter.
LastOf(list, n) ==
    IF Len(list) > n THEN SubSeq(list, Len(list) - n + 1, Len(list)) ELSE list

\* C40: the list get_last_indexed returns holds at most 10 entries: the
\* success messages received last, in the order they were received.
C40_LastTenInOrder ==
    /\ Len(last_indexed) <= LastIndexedCap
    /\ last_indexed = LastOf(last_indexed_hist.received, LastIndexedCap)

\* More messages were received than the list keeps, over several calls that
\* found the list full: the oldest ones are gone.
C40_Witness ==
    /\ Len(last_indexed_hist.received) > LastIndexedCap + 1
    /\ last_indexed_hist.calls >= 3
    /\ Len(last_indexed) = LastIndexedCap
    /\ last_indexed[1] # last_indexed_hist.received[1]
    /\ last_indexed[LastIndexedCap] =
           last_indexed_hist.received[Len(last_indexed_hist.received)]

\* A run is under way: a Record is queued for a drain thread or in its
\* hands.
IndexingUnderWay ==
    \E r \in Runs : image_q[r] # <<>> \/ drain[r].pc \in {"check", "insert"}

\* C34: a query that asks for the mutex during the runs waits through at
\* most one operation of each drain thread and then holds the mutex; no
\* drain thread holds the mutex while it waits on a channel.
C34_ReadersNotStarved ==
    /\ [](reader.bypassed <= MaxRuns)
    /\ [](\A r \in Runs : drain[r].pc \in {"recv", "done", "dead"} => conn_lock.holder # r)
    /\ (reader.pc = "waiting" ~> conn_lock.holder = UiThread)

\* A query has run after it waited through an operation of every drain
\* thread, and Records are still to be stored.
C34_Witness ==
    /\ reader.pc = "idle"
    /\ reader.bypassed = MaxRuns
    /\ query_result = Ok("unit")
    /\ IndexingUnderWay

====
